---------------------------- MODULE Spec2Model ----------------------------
(***************************************************************************)
(* A model of the ingestion-and-retrieval core of langchain-mcp-python:    *)
(* DocumentVectorizer (vector_store/vector.py), the cache-aware contexts   *)
(* WebContext and PdfContext (context/web_context.py, pdf_context.py) and  *)
(* the web scraper's result contract (readers/scraper.py).                 *)
(*                                                                         *)
(* Texts are sequences of one-character strings.  The collaborators that   *)
(* are libraries (the Chroma store, the text splitter, the LLM chain, the  *)
(* browser) are modelled by their contract; what they answer is an input   *)
(* of the action that calls them.                                          *)
(***************************************************************************)
EXTENDS Integers, Sequences, FiniteSets, TLC

VARIABLES
    dirExists,        \* path -> BOOLEAN: os.path.exists(db_path)
    dirFiles,         \* path -> BOOLEAN: os.listdir(db_path) is non-empty
    store,            \* path -> sequence of vector records of the collection
    storeInitWrites,  \* whether opening a Chroma store writes its index files
    vec,              \* the stand-alone DocumentVectorizer (VecSpec), or NoVec
    webObjs,          \* the WebContext objects constructed so far (their db_path)
    pdfObjs,          \* the PdfContext objects (the db_path of their vectorstore)
    seen,             \* (identifier, base dir) -> digest and path first computed
    last,             \* the last operation: arguments, collaborator calls, result
    net,              \* the network calls of the scraper and the PDF extractor
    database          \* the relational Database: its files table and id sequence

vars ==
    <<dirExists, dirFiles, store, storeInitWrites, vec, webObjs, pdfObjs, seen, last,
      net, database>>

---------------------------------------------------------------------------
(* Bounds of the model *)

\* chunk_size and chunk_overlap of the text splitter, scaled down from the
\* defaults 500 and 200 of DocumentVectorizer.__init__
ChunkSize == 3
ChunkOverlap == 1
\* largest batch_size a stand-alone vectorizer is configured with (besides the default)
MaxBatch == 2
\* most records a store holds; an ingestion that would exceed it is not started
MaxStore == 2
\* most records the stand-alone vectorizer's store holds
MaxVecStore == 3
\* largest k of a similarity search
MaxK == 2

\* Program constant: the default batch_size
DefaultBatchSize == 5000

---------------------------------------------------------------------------
(* Texts *)

Whitespace == {" ", "\n"}

\* str.strip()
RECURSIVE LStrip(_)
LStrip(t) == IF t # <<>> /\ Head(t) \in Whitespace THEN LStrip(Tail(t)) ELSE t

RECURSIVE RStrip(_)
RStrip(t) ==
    IF t # <<>> /\ t[Len(t)] \in Whitespace THEN RStrip(SubSeq(t, 1, Len(t) - 1)) ELSE t

Strip(t) == RStrip(LStrip(t))

\* bool(text): a Python string is falsy exactly when it is empty
Truthy(t) == t # <<>>

\* sep.join(parts)
RECURSIVE Join(_, _)
Join(sep, parts) ==
    IF parts = <<>> THEN <<>>
    ELSE IF Len(parts) = 1 THEN parts[1]
    ELSE parts[1] \o sep \o Join(sep, Tail(parts))

\* the texts the model feeds in: empty, whitespace only, one chunk, two chunks
Texts ==
    { <<>>, <<" ">>, <<"a", "b">>, <<"c", "d", "e", "f", "g">> }

\* what extract_text_from_html can yield: clean_text strips every block and
\* blocks are kept only when long enough, so never whitespace only
PageTexts == { <<>>, <<"a", "b">>, <<"c", "d", "e", "f", "g">> }

Document(text, metadata) == [page_content |-> text, metadata |-> metadata]

NoMetadata == {}

\* Mutant of Windows: a window of a long text is one character too long
RECURSIVE WindowsTooLong(_)
WindowsTooLong(t) ==
    IF Len(t) <= ChunkSize THEN <<t>>
    ELSE <<SubSeq(t, 1, ChunkSize + 1)>>
         \o WindowsTooLong(SubSeq(t, ChunkSize - ChunkOverlap + 1, Len(t)))

\* consecutive windows of ChunkSize characters overlapping by ChunkOverlap
RECURSIVE Windows(_)
Windows(t) ==
    IF Len(t) <= ChunkSize THEN <<t>>
    ELSE <<SubSeq(t, 1, ChunkSize)>>
         \o Windows(SubSeq(t, ChunkSize - ChunkOverlap + 1, Len(t)))

\* text_splitter.split_text: no chunk for empty or whitespace-only text, the
\* stripped text itself when it fits the budget, overlapping windows otherwise
split_text(t) ==
    LET s == Strip(t)
        w == IF s = <<>> THEN <<>> ELSE Windows(s)
        stripped == [i \in DOMAIN w |-> Strip(w[i])]
    IN  SelectSeq(stripped, Truthy)

\* text_splitter.split_documents: chunks of every document, flattened in
\* document order, each carrying its document's metadata
RECURSIVE split_documents(_)
split_documents(docs) ==
    IF docs = <<>> THEN <<>>
    ELSE LET d == Head(docs)
             cs == split_text(d.page_content)
         IN  [i \in DOMAIN cs |-> Document(cs[i], d.metadata)]
             \o split_documents(Tail(docs))

---------------------------------------------------------------------------
(* The vector store (Chroma collection) *)

Call(fn, arg) == [fn |-> fn, arg |-> arg]

CallsOf(calls, fn) == SelectSeq(calls, LAMBDA c : c.fn = fn)

RECURSIVE MaxId(_)
MaxId(st) ==
    IF st = <<>> THEN 0
    ELSE LET m == MaxId(Tail(st)) IN IF Head(st).id > m THEN Head(st).id ELSE m

\* Mutant of StoreAdd: ids are counted from 1 in every call and a record
\* whose id is taken again is overwritten
StoreAddOverwrite(st, batch) ==
    LET recs == [i \in DOMAIN batch |-> [id |-> i, doc |-> batch[i]]]
    IN  [store |-> recs \o SelectSeq(st, LAMBDA rec : rec.id > Len(batch)),
         ids |-> [i \in DOMAIN batch |-> i]]

\* Mutant of StoreAdd: the collection is recreated with the new batch only
StoreAddReplace(st, batch) ==
    LET base == MaxId(st)
        recs == [i \in DOMAIN batch |-> [id |-> base + i, doc |-> batch[i]]]
    IN  [store |-> recs, ids |-> [i \in DOMAIN batch |-> base + i]]

\* db.add_documents(batch): one record per document, in order, under fresh ids
StoreAdd(st, batch) ==
    LET base == MaxId(st)
        recs == [i \in DOMAIN batch |-> [id |-> base + i, doc |-> batch[i]]]
    IN  [store |-> st \o recs, ids |-> [i \in DOMAIN batch |-> base + i]]

---------------------------------------------------------------------------
(* DocumentVectorizer *)

\* documents[i : i + batch_size], i counted from 0
Slice(documents, i, b) ==
    SubSeq(documents, i + 1, IF i + b < Len(documents) THEN i + b ELSE Len(documents))

\* Mutant of BatchLoop: a failing batch is logged and the loop goes on
RECURSIVE BatchLoopContinue(_, _, _, _, _)
BatchLoopContinue(acc, documents, b, i, failAt) ==
    IF i >= Len(documents) THEN acc
    ELSE LET batch == Slice(documents, i, b)
             calls == Append(acc.calls, Call("add", batch))
         IN  IF Len(calls) = failAt
             THEN BatchLoopContinue([acc EXCEPT !.calls = calls, !.outcome = "StoreError",
                                                !.ids = <<>>, !.failed = Len(calls)],
                                    documents, b, i + b, failAt)
             ELSE LET r == StoreAdd(acc.store, batch)
                  IN  BatchLoopContinue([acc EXCEPT !.calls = calls, !.store = r.store,
                                                    !.ids = acc.ids \o r.ids],
                                        documents, b, i + b, failAt)

\* The for loop of _add_documents_in_batches from offset i on.  acc is the
\* result so far; the store's add raises on its failAt-th call (0: never).
RECURSIVE BatchLoop(_, _, _, _, _)
BatchLoop(acc, documents, b, i, failAt) ==
    IF i >= Len(documents) THEN acc
    ELSE LET batch == Slice(documents, i, b)
             calls == Append(acc.calls, Call("add", batch))
         IN  IF Len(calls) = failAt
             THEN [acc EXCEPT !.calls = calls, !.outcome = "StoreError", !.ids = <<>>,
                              !.failed = Len(calls)]
             ELSE LET r == StoreAdd(acc.store, batch)
                  IN  BatchLoop([acc EXCEPT !.calls = calls,
                                            !.store = r.store,
                                            !.ids = acc.ids \o r.ids],
                                documents, b, i + b, failAt)

\* Mutant of add_documents_in_batches: batch_size is ignored, one call adds all
AddAllAtOnce(st, documents, b, failAt) ==
    IF failAt = 1
    THEN [store |-> st, calls |-> <<Call("add", documents)>>, ids |-> <<>>,
          outcome |-> "StoreError", failed |-> 1, handed |-> documents, built |-> 0]
    ELSE LET r == StoreAdd(st, documents)
         IN  [store |-> r.store, calls |-> <<Call("add", documents)>>, ids |-> r.ids,
              outcome |-> "ok", failed |-> 0, handed |-> documents, built |-> 0]

\* DocumentVectorizer._add_documents_in_batches on store st with batch_size b.
\* The result keeps the list it was handed; built is for the callers, the
\* number of Documents they were given or made.
add_documents_in_batches(st, documents, b, failAt) ==
    LET start == [store |-> st, calls |-> <<>>, ids |-> <<>>, outcome |-> "ok",
                  failed |-> 0, handed |-> documents, built |-> 0]
    IN  IF Len(documents) <= b
        THEN \* one call with everything
             IF failAt = 1
             THEN [start EXCEPT !.calls = <<Call("add", documents)>>,
                                !.outcome = "StoreError", !.failed = 1]
             ELSE LET r == StoreAdd(st, documents)
                  IN  [start EXCEPT !.calls = <<Call("add", documents)>>,
                                    !.store = r.store, !.ids = r.ids]
        ELSE IF b = 0
        THEN \* total_batches = (total_docs + 0 - 1) // 0
             [start EXCEPT !.outcome = "ZeroDivisionError"]
        ELSE IF b < 0
        THEN \* range(0, total_docs, batch_size) is empty for a negative step
             start
        ELSE BatchLoop(start, documents, b, 0, failAt)

\* Mutant of WithPersist: persist is called whether or not a batch raised
WithPersistAlways(r) == [r EXCEPT !.calls = Append(r.calls, Call("persist", <<>>))]

\* db.persist() after the batches, reached only when none of them raised
WithPersist(r) ==
    IF r.outcome = "ok" THEN [r EXCEPT !.calls = Append(r.calls, Call("persist", <<>>))]
    ELSE r

\* DocumentVectorizer.process_text
process_text(text, metadata) == split_documents(<<Document(text, metadata)>>)

\* DocumentVectorizer.add_documents: split, add in batches, persist.
\* handed is the chunk list given to _add_documents_in_batches.
vec_add_documents(st, documents, b, failAt) ==
    [WithPersist(add_documents_in_batches(st, split_documents(documents), b, failAt))
        EXCEPT !.calls = <<Call("split", Len(documents))>> \o @,
               !.built = Len(documents)]

\* DocumentVectorizer.add_text
vec_add_text(st, text, metadata, b, failAt) ==
    [WithPersist(add_documents_in_batches(st, process_text(text, metadata), b, failAt))
        EXCEPT !.calls = <<Call("split", 1)>> \o @,
               !.built = 1]

\* the "metadatas" argument of add_texts: None, or a list of metadata mappings
None == [given |-> FALSE, list |-> <<>>]

MetaList(list) == [given |-> TRUE, list |-> list]

\* bool(metadatas): None and the empty list are falsy
MetasTruthy(metadatas) == metadatas.given /\ metadatas.list # <<>>

\* DocumentVectorizer.add_texts
vec_add_texts(st, texts, metadatas, b, failAt) ==
    IF MetasTruthy(metadatas) /\ Len(metadatas.list) # Len(texts)
    THEN [store |-> st, calls |-> <<>>, ids |-> <<>>, outcome |-> "ValueError",
          failed |-> 0, handed |-> <<>>, built |-> 0]
    ELSE LET documents ==
                 [i \in DOMAIN texts |->
                     Document(texts[i],
                              IF MetasTruthy(metadatas) THEN metadatas.list[i]
                              ELSE NoMetadata)]
         IN  vec_add_documents(st, documents, b, failAt)

\* DocumentVectorizer.set_batch_size: the new batch_size, or the rejection
set_batch_size(old, b) ==
    IF b <= 0 THEN [batch_size |-> old, outcome |-> "ValueError"]
    ELSE [batch_size |-> b, outcome |-> "ok"]

\* a setting left unset: None and "" both count as false
NotSet == ""

\* a row of the table as the SELECT returns it: the content column's value
\* (NULL and '' written <<>>), then the metadata columns' values
Row(content, values) == [content |-> content, values |-> values]

\* {key: value for key, value in zip(self.metadata_columns, row[1:])}
RowMetadata(columns, row) ==
    { <<columns[i], row.values[i]>> : i \in (DOMAIN columns) \cap (DOMAIN row.values) }

\* the calls of ingest_from_sqlite on the relational store up to conn.close()
SqliteCalls(v, table_name) ==
    <<Call("connect", v.sqlite_path), Call("execute", table_name), Call("close", <<>>)>>

\* Mutant of ingest_from_sqlite: the settings are tested after the connection
\* is opened and the table is read
ingest_from_sqlite_connect_first(st, v, table_name, table, readable, failAt) ==
    LET kept == SelectSeq(table, LAMBDA row : Truthy(row.content))
        texts == [i \in DOMAIN kept |-> kept[i].content]
        metadatas == [i \in DOMAIN kept |-> RowMetadata(v.metadata_columns, kept[i])]
        none == [store |-> st, calls |-> <<>>, ids |-> <<>>, outcome |-> "ok",
                 failed |-> 0, handed |-> <<>>, built |-> 0]
    IN  IF ~readable
        THEN [none EXCEPT !.outcome = "OperationalError",
                          !.calls = <<Call("connect", v.sqlite_path),
                                      Call("execute", table_name)>>]
        ELSE IF v.sqlite_path = NotSet \/ v.content_column = NotSet
        THEN [none EXCEPT !.outcome = "ValueError", !.calls = SqliteCalls(v, table_name)]
        ELSE IF texts = <<>>
        THEN [none EXCEPT !.calls = SqliteCalls(v, table_name)]
        ELSE [vec_add_texts(st, texts, MetaList(metadatas), v.batch_size, failAt)
                 EXCEPT !.calls = SqliteCalls(v, table_name)
                                  \o <<Call("add_texts", [texts |-> texts,
                                                          metadatas |-> metadatas])>>
                                  \o @]

\* Mutant of ingest_from_sqlite: the metadata of every row is kept, also of
\* the rows whose content is dropped
ingest_from_sqlite_all_metadata(st, v, table_name, table, readable, failAt) ==
    LET kept == SelectSeq(table, LAMBDA row : Truthy(row.content))
        texts == [i \in DOMAIN kept |-> kept[i].content]
        metadatas == [i \in DOMAIN table |-> RowMetadata(v.metadata_columns, table[i])]
        none == [store |-> st, calls |-> <<>>, ids |-> <<>>, outcome |-> "ok",
                 failed |-> 0, handed |-> <<>>, built |-> 0]
    IN  IF v.sqlite_path = NotSet \/ v.content_column = NotSet
        THEN [none EXCEPT !.outcome = "ValueError"]
        ELSE IF ~readable
        THEN [none EXCEPT !.outcome = "OperationalError",
                          !.calls = <<Call("connect", v.sqlite_path),
                                      Call("execute", table_name)>>]
        ELSE IF texts = <<>>
        THEN [none EXCEPT !.calls = SqliteCalls(v, table_name)]
        ELSE [vec_add_texts(st, texts, MetaList(metadatas), v.batch_size, failAt)
                 EXCEPT !.calls = SqliteCalls(v, table_name)
                                  \o <<Call("add_texts", [texts |-> texts,
                                                          metadatas |-> metadatas])>>
                                  \o @]

\* DocumentVectorizer.ingest_from_sqlite(table_name) on a vectorizer v whose
\* relational store holds the rows `table` under that name; readable is
\* whether the connection and the SELECT succeed (sqlite3 raises otherwise)
ingest_from_sqlite(st, v, table_name, table, readable, failAt) ==
    LET kept == SelectSeq(table, LAMBDA row : Truthy(row.content))
        texts == [i \in DOMAIN kept |-> kept[i].content]
        metadatas == [i \in DOMAIN kept |-> RowMetadata(v.metadata_columns, kept[i])]
        none == [store |-> st, calls |-> <<>>, ids |-> <<>>, outcome |-> "ok",
                 failed |-> 0, handed |-> <<>>, built |-> 0]
    IN  IF v.sqlite_path = NotSet \/ v.content_column = NotSet
        THEN [none EXCEPT !.outcome = "ValueError"]
        ELSE IF ~readable
        THEN [none EXCEPT !.outcome = "OperationalError",
                          !.calls = <<Call("connect", v.sqlite_path),
                                      Call("execute", table_name)>>]
        ELSE IF texts = <<>>
        THEN [none EXCEPT !.calls = SqliteCalls(v, table_name)]
        ELSE [vec_add_texts(st, texts, MetaList(metadatas), v.batch_size, failAt)
                 EXCEPT !.calls = SqliteCalls(v, table_name)
                                  \o <<Call("add_texts", [texts |-> texts,
                                                          metadatas |-> metadatas])>>
                                  \o @]

---------------------------------------------------------------------------
(* The file system under the store directories *)

\* os.path.join(base_db_dir, db_hash)
PathJoin(base, name) == <<base, name>>

\* db_path of the stand-alone vectorizer
VecPath == <<"xoibit_chroma">>

\* no network call was made
NoCall == [pc |-> "idle", target |-> "", timed |-> FALSE, timeout |-> 0, elapsed |-> 0,
           responds |-> FALSE, outcome |-> "none"]

NoNet == [web |-> NoCall, pdf |-> NoCall]

\* no Database object was made
NoDatabase == [open |-> FALSE, files |-> <<>>, seq |-> 0]

\* no stand-alone vectorizer
NoVec == [batch_size |-> 0, constructed |-> FALSE]

\* Mutant of init_vector_db: the directory is made afresh
init_vector_db_fresh(de, df, p, eager) ==
    [exists |-> [de EXCEPT ![p] = TRUE],
     files  |-> [df EXCEPT ![p] = eager]]

\* DocumentVectorizer._init_vector_db: os.makedirs(db_path, exist_ok=True),
\* then Chroma(persist_directory=db_path); a store that keeps its index on
\* disk from the start (eager) leaves files in the directory
init_vector_db(de, df, p, eager) ==
    [exists |-> [de EXCEPT ![p] = TRUE],
     files  |-> [df EXCEPT ![p] = df[p] \/ eager]]

\* the directory after the calls of an operation: persist() flushes the
\* index to the directory
FilesAfter(df, p, calls) ==
    [df EXCEPT ![p] = df[p] \/ CallsOf(calls, "persist") # <<>>]

\* os.path.exists(db_path) and os.listdir(db_path)
db_exists(de, df, p) == de[p] /\ df[p]

---------------------------------------------------------------------------
(* Source identifiers and the cache key *)

WebURLs == { "https://a.example/policy", "http://b.example/guide", "ftp://c.example/file" }

PdfSources == { "nz-immigration.pdf" }

Identifiers == WebURLs \cup PdfSources

HexDigits ==
    { "0", "1", "2", "3", "4", "5", "6", "7", "8", "9", "a", "b", "c", "d", "e", "f" }

\* hashlib.sha256(id.encode()).hexdigest() of the model's identifiers
Sha256Hex(id) ==
    CASE id = "https://a.example/policy" ->
        <<"3","b","4","0","a","3","3","a","5","6","b","d","0","1","3","5","2","2","0","a","f","d","a","e","7","5","b","9","6","7","0","5","d","0","4","0","b","4","f","8","4","5","9","6","d","3","7","d","5","c","9","f","f","d","7","0","3","7","5","2","5","8","3","c">>
      [] id = "http://b.example/guide" ->
        <<"5","0","e","3","3","c","5","c","8","6","f","b","b","a","2","6","0","1","0","5","2","8","9","9","f","b","5","f","4","0","7","5","2","2","8","2","d","7","e","2","3","9","3","3","5","9","2","8","0","3","2","1","1","a","6","0","3","f","d","8","1","6","2","d">>
      [] id = "ftp://c.example/file" ->
        <<"9","f","b","8","7","4","6","0","5","b","b","d","b","a","7","f","f","8","9","7","5","2","b","5","f","8","6","7","7","b","9","0","8","4","b","1","6","d","7","f","a","2","6","a","9","f","e","5","0","9","e","8","3","b","f","f","f","f","e","b","8","0","5","3">>
      [] id = "nz-immigration.pdf" ->
        <<"2","6","f","e","2","1","6","2","6","9","c","6","b","2","8","3","8","8","1","5","1","b","6","b","0","0","3","1","a","a","4","8","8","3","0","9","1","c","4","1","4","3","e","8","d","f","a","4","6","2","2","5","3","b","2","0","a","e","f","9","f","3","b","9">>

\* Mutant of db_hash: a shorter prefix of the digest
db_hash_short(id) == SubSeq(Sha256Hex(id), 1, 8)

\* hashlib.sha256(url.encode()).hexdigest()[:16]
db_hash(id) == SubSeq(Sha256Hex(id), 1, 16)

\* Mutant of db_path: one directory for every source of a base directory
db_path_shared(id, base) == PathJoin(base, <<"c", "h", "r", "o", "m", "a">>)

\* db_path of a context
db_path(id, base) == PathJoin(base, db_hash(id))

\* the (url, base_db_dir) pairs WebContext is constructed with
WebInputs == WebURLs \X {"web_chroma_dbs"}

\* the (source, base_db_dir) pairs PdfContext is constructed with
PdfInputs == PdfSources \X {"directory_chroma_dbs"}

WebPaths == { db_path(in[1], in[2]) : in \in WebInputs }

---------------------------------------------------------------------------
(* WebScraper *)

\* urlparse(url) of the model's URLs
urlparse(url) ==
    CASE url = "https://a.example/policy" -> [scheme |-> "https", netloc |-> "a.example"]
      [] url = "http://b.example/guide" -> [scheme |-> "http", netloc |-> "b.example"]
      [] url = "ftp://c.example/file" -> [scheme |-> "ftp", netloc |-> "c.example"]
      [] url = "https:///policy" -> [scheme |-> "https", netloc |-> ""]
      [] url = "a.example/policy" -> [scheme |-> "", netloc |-> ""]
      [] url = "HTTP://b.example/guide" -> [scheme |-> "http", netloc |-> "b.example"]

\* Mutant of validate_url: any scheme is accepted
validate_url_any_scheme(url) ==
    LET result == urlparse(url)
    IN  result.scheme # "" /\ result.netloc # ""

\* WebScraper.validate_url
validate_url(url) ==
    LET result == urlparse(url)
    IN  result.scheme # "" /\ result.netloc # "" /\ result.scheme \in {"http", "https"}

\* what the browser answers: no page, or a page with this extractable text
Unreachable == <<"<unreachable>">>

Pages == { Unreachable } \cup PageTexts

\* WebScraper.scrape: fetch_html, then extract_text_from_html
scrape(url, page) ==
    IF ~validate_url(url)
    THEN [success |-> FALSE, text |-> <<>>,
          calls |-> <<Call("scrape", url), Call("fetch_html", url)>>]
    ELSE IF page = Unreachable
    THEN [success |-> FALSE, text |-> <<>>,
          calls |-> <<Call("scrape", url), Call("fetch_html", url), Call("goto", url)>>]
    ELSE [success |-> TRUE, text |-> page,
          calls |-> <<Call("scrape", url), Call("fetch_html", url), Call("goto", url)>>]

---------------------------------------------------------------------------
(* Similarity search and the LLM *)

Questions == { <<"a">>, <<"e", "f">> }

CharsOf(t) == { t[i] : i \in DOMAIN t }

\* distance of a chunk from the query in embedding space: the characters of
\* the chunk that the query lacks
Distance(q, content) == Cardinality({ i \in DOMAIN content : content[i] \notin CharsOf(q) })

\* the records of st, nearest first, ties in insertion order
RECURSIVE Ranked(_, _)
Ranked(st, q) ==
    IF st = <<>> THEN <<>>
    ELSE LET best == CHOOSE i \in DOMAIN st :
                        \A j \in DOMAIN st :
                            \/ Distance(q, st[i].doc.page_content)
                                   < Distance(q, st[j].doc.page_content)
                            \/ /\ Distance(q, st[i].doc.page_content)
                                      = Distance(q, st[j].doc.page_content)
                               /\ i <= j
             rest == [j \in 1..(Len(st) - 1) |-> IF j < best THEN st[j] ELSE st[j + 1]]
         IN  <<st[best]>> \o Ranked(rest, q)

\* DocumentVectorizer.similarity_search: up to k documents, nearest first
similarity_search(st, q, k) ==
    LET r == Ranked(st, q)
        n == IF k < Len(r) THEN k ELSE Len(r)
    IN  [i \in 1..n |-> r[i].doc]

\* DocumentVectorizer.similarity_search_with_score: the same documents, each
\* with its distance from the query
similarity_search_with_score(st, q, k) ==
    LET docs == similarity_search(st, q, k)
    IN  [i \in DOMAIN docs |->
            [doc |-> docs[i], score |-> Distance(q, docs[i].page_content)]]

\* what the LLM chain answers
LLMResponses == { <<"y">>, <<" ", "y", "\n">> }

FallbackMessage == <<"No relevant documents found. Try force_rescrape=True to refresh.">>

\* the separator between chunks in the prompt's document
WebSeparator == <<"\n", "\n">>
PdfSeparator == <<" ">>

\* k of the similarity_search_with_score call inside ask
ScoreK == 5

\* the default k of ask
DefaultK == 5

\* Mutant of ask: the prompt's document is built from the chunks of the
\* scored search (k = 5) instead of those of similarity_search(question, k)
ask_scored_chunks(st, sep, question, k, response) ==
    LET similar_docs == similarity_search(st, question, k)
        scored == similarity_search(st, question, ScoreK)
        search == Call("similarity_search", <<question, k>>)
    IN  IF similar_docs = <<>>
        THEN [result |-> FallbackMessage, calls |-> <<search>>, found |-> similar_docs]
        ELSE [result |-> Strip(response),
              calls |-> <<search,
                          Call("similarity_search_with_score", <<question, ScoreK>>),
                          Call("llm", [document |->
                                           Join(sep, [i \in DOMAIN scored |->
                                                         scored[i].page_content]),
                                       question |-> question])>>,
              found |-> similar_docs]

\* Mutant of ask: the empty result is not checked for
ask_unchecked(st, sep, question, k, response) ==
    LET similar_docs == similarity_search(st, question, k)
        combined_docs ==
            Join(sep, [i \in DOMAIN similar_docs |-> similar_docs[i].page_content])
    IN  [result |-> Strip(response),
         calls |-> <<Call("similarity_search", <<question, k>>),
                     Call("similarity_search_with_score", <<question, ScoreK>>),
                     Call("llm", [document |-> combined_docs, question |-> question])>>,
         found |-> similar_docs]

\* Mutant of ask: the store is persisted after the search
ask_persisting(st, sep, question, k, response) ==
    LET similar_docs == similarity_search(st, question, k)
        search == Call("similarity_search", <<question, k>>)
    IN  IF similar_docs = <<>>
        THEN [result |-> FallbackMessage, calls |-> <<search, Call("persist", <<>>)>>,
              found |-> similar_docs]
        ELSE LET combined_docs ==
                     Join(sep, [i \in DOMAIN similar_docs |-> similar_docs[i].page_content])
             IN  [result |-> Strip(response),
                  calls |-> <<search, Call("persist", <<>>),
                              Call("similarity_search_with_score", <<question, ScoreK>>),
                              Call("llm", [document |-> combined_docs,
                                           question |-> question])>>,
                  found |-> similar_docs]

\* WebContext.ask / PdfContext.ask on a context whose vectorstore holds st
ask(st, sep, question, k, response) ==
    LET similar_docs == similarity_search(st, question, k)
        search == Call("similarity_search", <<question, k>>)
    IN  IF similar_docs = <<>>
        THEN [result |-> FallbackMessage, calls |-> <<search>>, found |-> similar_docs]
        ELSE LET combined_docs ==
                     Join(sep, [i \in DOMAIN similar_docs |-> similar_docs[i].page_content])
             IN  [result |-> Strip(response),
                  calls |-> <<search,
                              Call("similarity_search_with_score", <<question, ScoreK>>),
                              Call("llm", [document |-> combined_docs,
                                           question |-> question])>>,
                  found |-> similar_docs]

WebContext_ask(st, question, k, response) == ask(st, WebSeparator, question, k, response)

PdfContext_ask(st, question, k, response) == ask(st, PdfSeparator, question, k, response)

---------------------------------------------------------------------------
(* WebContext and PdfContext *)

\* Mutant of vectorize_and_store: empty text is not rejected
vectorize_and_store_unchecked(st, content, failAt) ==
    [vec_add_documents(st, process_text(content.text, NoMetadata), DefaultBatchSize, failAt)
        EXCEPT !.calls = <<Call("split", 1)>> \o @]

\* WebContext.vectorize_and_store on the scraped content
vectorize_and_store(st, content, failAt) ==
    IF ~Truthy(content.text)
    THEN [store |-> st, calls |-> <<>>, ids |-> <<>>, outcome |-> "ValueError",
          failed |-> 0, handed |-> <<>>, built |-> 0]
    ELSE [vec_add_documents(st, process_text(content.text, NoMetadata),
                            DefaultBatchSize, failAt)
             EXCEPT !.calls = <<Call("split", 1)>> \o @]

\* Mutant of web_init_ingest: the existing store is never reused
web_init_always_scrape(st, url, force_rescrape, exists, page, failAt) ==
    LET content == scrape(url, page)
    IN  [vectorize_and_store(st, content, failAt) EXCEPT !.calls = content.calls \o @]

\* the branch of WebContext.__init__ after the vectorizer is built: scrape and
\* store when forced or when no store existed, load the existing store otherwise
web_init_ingest(st, url, force_rescrape, exists, page, failAt) ==
    IF force_rescrape \/ ~exists
    THEN LET content == scrape(url, page)
         IN  [vectorize_and_store(st, content, failAt) EXCEPT !.calls = content.calls \o @]
    ELSE [store |-> st, calls |-> <<>>, ids |-> <<>>, outcome |-> "ok",
          failed |-> 0, handed |-> <<>>, built |-> 0]

\* PdfContext.__init__: the digest is computed, then os.path.join is reached
\* in a module that never imports os
pdf_init(source, base) ==
    [digest |-> db_hash(source), outcome |-> "NameError"]

---------------------------------------------------------------------------
(* ContextBuilder and WebContextBuilder *)

\* a file of the reader's file_map: its path and its content
File(path, content) == [path |-> path, content |-> content]

\* what the summarizer LLM returns for a file it does not fail on
SummaryOf(file) == "summary of " \o file.path

\* Mutant of IngestLoop: the first failure of the LLM ends the loop
RECURSIVE IngestLoopAbort(_, _, _, _)
IngestLoopAbort(acc, file_map, failing, i) ==
    IF i > Len(file_map) THEN acc
    ELSE LET file == file_map[i]
         IN  IF Strip(file.content) = <<>>
             THEN IngestLoopAbort(acc, file_map, failing, i + 1)
             ELSE IF i \in failing
             THEN [acc EXCEPT !.calls = Append(@, Call("llm", file.path))]
             ELSE IngestLoopAbort([acc EXCEPT
                                      !.calls = Append(@, Call("llm", file.path)),
                                      !.documents =
                                          Append(@, Document(file.content,
                                                             { <<"file_path", file.path>>,
                                                               <<"summary", SummaryOf(file)>> }))],
                                  file_map, failing, i + 1)

\* the loop of ContextBuilder.ingest from file i on: acc.documents are the
\* documents built so far, acc.calls the LLM calls made; the LLM raises on
\* the files whose index is in failing
RECURSIVE IngestLoop(_, _, _, _)
IngestLoop(acc, file_map, failing, i) ==
    IF i > Len(file_map) THEN acc
    ELSE LET file == file_map[i]
         IN  IF Strip(file.content) = <<>>
             THEN IngestLoop(acc, file_map, failing, i + 1)
             ELSE IF i \in failing
             THEN IngestLoop([acc EXCEPT !.calls = Append(@, Call("llm", file.path))],
                             file_map, failing, i + 1)
             ELSE IngestLoop([acc EXCEPT
                                 !.calls = Append(@, Call("llm", file.path)),
                                 !.documents =
                                     Append(@, Document(file.content,
                                                        { <<"file_path", file.path>>,
                                                          <<"summary", SummaryOf(file)>> }))],
                             file_map, failing, i + 1)

\* the documents ContextBuilder.ingest builds and the LLM calls it makes
IngestDocuments(file_map, failing) ==
    IngestLoop([documents |-> <<>>, calls |-> <<Call("collect_files", <<>>)>>],
               file_map, failing, 1)

\* the rest of ContextBuilder.ingest: the documents go to add_documents
IngestAdd(st, b, built, failAt) ==
    [vec_add_documents(st, built.documents, b, failAt)
        EXCEPT !.calls = built.calls
                         \o <<Call("add_documents", built.documents)>> \o @]

\* ContextBuilder.ingest() on a vectorizer with store st and batch_size b
ContextBuilder_ingest(st, b, file_map, failing, failAt) ==
    IngestAdd(st, b, IngestDocuments(file_map, failing), failAt)

\* WebContextBuilder.build_context(url): None is returned for a page without
\* text (outcome "ok", nothing built), the ids of add_documents otherwise
build_context(st, b, url, page, failAt) ==
    LET content == scrape(url, page)
    IN  IF Strip(content.text) = <<>>
        THEN [store |-> st, calls |-> content.calls, ids |-> <<>>, outcome |-> "ok",
              failed |-> 0, handed |-> <<>>, built |-> 0]
        ELSE [vec_add_documents(st, <<Document(content.text, { <<"url", url>> })>>, b, failAt)
                 EXCEPT !.calls = content.calls \o @]

\* PDFContextBuilder.build_context(pdf_path) with a PDFTextExtractor: the
\* call self.pdf_extractor.extract_text(pdf_path) passes an argument to a
\* method that takes none, so Python raises TypeError before the extractor
\* reads anything
PDFContextBuilder_build_context(st, pdf_path) ==
    [store |-> st, calls |-> <<Call("extract_text", pdf_path)>>, ids |-> <<>>,
     outcome |-> "TypeError", failed |-> 0, handed |-> <<>>, built |-> 0]

---------------------------------------------------------------------------
(* The record of an operation *)

NoPath == <<>>

NoLast ==
    [op |-> "none", id |-> "", base |-> "", force |-> FALSE, cached |-> FALSE,
     path |-> NoPath, digest |-> <<>>, outcome |-> "ok", failed |-> 0, calls |-> <<>>,
     handed |-> <<>>, ids |-> <<>>, built |-> 0, before |-> <<>>, b |-> 0,
     nTexts |-> 0, metasGiven |-> FALSE, nMetas |-> 0, text |-> <<>>, docs |-> <<>>,
     rows |-> <<>>, files |-> <<>>, failing |-> {}, success |-> TRUE,
     reader |-> <<>>, paths |-> <<>>, file_id |-> 0, args |-> <<>>, returned |-> <<>>,
     question |-> <<>>, k |-> 0, response |-> <<>>, result |-> <<>>, found |-> <<>>]

NotSeen == [digest |-> <<>>, path |-> NoPath, computed |-> FALSE]

\* remember the digest and path of the first construction for (id, base)
Remember(id, base, digest, path) ==
    IF seen[<<id, base>>].computed THEN seen
    ELSE [seen EXCEPT ![<<id, base>>] =
              [digest |-> digest, path |-> path, computed |-> TRUE]]

---------------------------------------------------------------------------
(* Actions of the contexts *)

\* the state after WebContext.__init__: fs is the file system after the
\* vectorizer was built, r the outcome of the scrape-or-load branch
WebContextDone(url, base, force_rescrape, hash, p, exists, fs, r, text) ==
    /\ Len(r.store) <= MaxStore
    /\ dirExists' = fs.exists
    /\ dirFiles' = FilesAfter(fs.files, p, r.calls)
    /\ store' = [store EXCEPT ![p] = r.store]
    /\ webObjs' = IF r.outcome = "ok" THEN webObjs \cup {p} ELSE webObjs
    /\ seen' = Remember(url, base, hash, p)
    /\ last' = [NoLast EXCEPT !.op = "WebContext", !.id = url, !.base = base,
                              !.force = force_rescrape, !.cached = exists,
                              !.path = p, !.digest = hash, !.outcome = r.outcome,
                              !.failed = r.failed,
                              !.calls = r.calls, !.handed = r.handed,
                              !.ids = r.ids, !.built = r.built,
                              !.before = store[p], !.b = DefaultBatchSize,
                              !.text = text]
    /\ UNCHANGED <<storeInitWrites, vec, pdfObjs, net, database>>

\* WebContext.__init__ from the db_exists test on: the vectorizer is built,
\* then the source is scraped and stored, or the existing store is loaded
WebContextAt(url, base, force_rescrape, hash, p, exists, page, failAt) ==
    WebContextDone(url, base, force_rescrape, hash, p, exists,
                   init_vector_db(dirExists, dirFiles, p, storeInitWrites),
                   web_init_ingest(store[p], url, force_rescrape, exists, page, failAt),
                   IF force_rescrape \/ ~exists THEN scrape(url, page).text ELSE <<>>)

\* WebContext(url, model, summarizer, base_db_dir, force_rescrape)
WebContextInit(url, base, force_rescrape, page, failAt) ==
    WebContextAt(url, base, force_rescrape, db_hash(url), db_path(url, base),
                 db_exists(dirExists, dirFiles, db_path(url, base)), page, failAt)

\* PdfContext(source, model, summarizer, base_db_dir)
PdfContextInit(source, base) ==
    LET r == pdf_init(source, base)
    IN  /\ seen' = Remember(source, base, r.digest, NoPath)
        /\ last' = [NoLast EXCEPT !.op = "PdfContext", !.id = source, !.base = base,
                                  !.digest = r.digest, !.outcome = r.outcome]
        /\ UNCHANGED <<dirExists, dirFiles, store, storeInitWrites, vec, webObjs, pdfObjs, net, database>>

\* ask(question, k) on a constructed context
Ask(op, p, r, question, k, response) ==
    /\ last' = [NoLast EXCEPT !.op = op, !.path = p, !.calls = r.calls,
                              !.before = store[p], !.question = question, !.k = k,
                              !.response = IF r.found = <<>> THEN <<>> ELSE response,
                              !.result = r.result,
                              !.found = r.found]
    /\ UNCHANGED <<dirExists, dirFiles, store, storeInitWrites, vec, webObjs, pdfObjs, seen, net, database>>

WebAsk(p, question, k, response) ==
    /\ p \in webObjs
    /\ Ask("WebContext.ask", p, WebContext_ask(store[p], question, k, response),
           question, k, response)

PdfAsk(p, question, k, response) ==
    /\ p \in pdfObjs
    /\ Ask("PdfContext.ask", p, PdfContext_ask(store[p], question, k, response),
           question, k, response)

InitSeen == [key \in WebInputs \cup PdfInputs |-> NotSeen]

Init ==
    /\ dirExists = [p \in WebPaths |-> FALSE]
    /\ dirFiles = [p \in WebPaths |-> FALSE]
    /\ store = [p \in WebPaths |-> <<>>]
    /\ storeInitWrites \in BOOLEAN
    /\ vec = NoVec
    /\ webObjs = {}
    /\ pdfObjs = {}
    /\ seen = InitSeen
    /\ last = NoLast
    /\ net = NoNet
    /\ database = NoDatabase

\* the inputs a construction reads: the page only when the constructor
\* scrapes, the failure of the store only when there is text to add
PagesRead(url, base, force_rescrape) ==
    IF force_rescrape \/ ~db_exists(dirExists, dirFiles, db_path(url, base)) THEN Pages
    ELSE {Unreachable}

FailuresAt(url, page) ==
    IF validate_url(url) /\ page # Unreachable /\ Truthy(page) THEN 0..1 ELSE {0}

WebContextStep ==
    \E in \in WebInputs, force \in BOOLEAN :
        \E page \in PagesRead(in[1], in[2], force) :
            \E failAt \in FailuresAt(in[1], page) :
                WebContextInit(in[1], in[2], force, page, failAt)

PdfContextStep == \E in \in PdfInputs : PdfContextInit(in[1], in[2])

\* the LLM's answer matters only when a chunk is found
WebAskStep ==
    \E p \in webObjs, q \in Questions, k \in {0, DefaultK} :
        IF similarity_search(store[p], q, k) = <<>>
        THEN WebAsk(p, q, k, <<>>)
        ELSE \E response \in LLMResponses : WebAsk(p, q, k, response)

Next ==
    \/ WebContextStep
    \/ PdfContextStep
    \/ WebAskStep

Spec == Init /\ [][Next]_vars

---------------------------------------------------------------------------
(* The stand-alone DocumentVectorizer *)

\* batch_size arguments: the constructor and set_batch_size take any integer
BatchSizes == -1..MaxBatch

\* the text lists of add_texts and, as documents, of add_documents
TextLists ==
    { <<>>, << <<" ">> >>, << <<"a", "b">> >>, << <<"c", "d", "e", "f", "g">> >>,
      << <<"a", "b">>, <<"c", "d", "e", "f", "g">> >>,
      << <<"c", "d", "e", "f", "g">>, <<"c", "d", "e", "f", "g">> >> }

\* the metadatas arguments of add_texts: None, or a list of 0 to 3 mappings
MetaArgs ==
    { None, MetaList(<<>>), MetaList(<<NoMetadata>>), MetaList(<<NoMetadata, NoMetadata>>),
      MetaList(<<NoMetadata, NoMetadata, NoMetadata>>) }

\* the add calls an operation issues when the store never fails
AddCalls(r) == Len(CallsOf(r.calls, "add"))

\* the state after an operation of the vectorizer on its store; docs is the
\* list the operation was given, texts written as documents
VecDone(op, r, docs, metadatas) ==
    /\ Len(r.store) <= MaxVecStore
    /\ store' = [store EXCEPT ![VecPath] = r.store]
    /\ dirFiles' = FilesAfter(dirFiles, VecPath, r.calls)
    /\ last' = [NoLast EXCEPT !.op = op, !.path = VecPath, !.outcome = r.outcome,
                              !.failed = r.failed, !.calls = r.calls, !.handed = r.handed, !.ids = r.ids,
                              !.built = r.built, !.before = store[VecPath],
                              !.b = vec.batch_size, !.nTexts = Len(docs),
                              !.docs = docs,
                              !.metasGiven = metadatas.given,
                              !.nMetas = Len(metadatas.list)]
    /\ UNCHANGED <<dirExists, storeInitWrites, vec, webObjs, pdfObjs, seen, net, database>>

\* vectorizer.add_documents(documents), the documents' texts drawn from lists
VecAddDocumentsOf(lists) ==
    \E texts \in lists :
        LET documents == [i \in DOMAIN texts |-> Document(texts[i], NoMetadata)]
            n == AddCalls(vec_add_documents(store[VecPath], documents, vec.batch_size, 0))
        IN  \E failAt \in 0..n :
                VecDone("add_documents",
                        vec_add_documents(store[VecPath], documents, vec.batch_size, failAt),
                        documents, None)

\* vectorizer.add_text(text), text drawn from texts
VecAddTextOf(texts) ==
    \E text \in texts :
        LET n == AddCalls(vec_add_text(store[VecPath], text, NoMetadata, vec.batch_size, 0))
        IN  \E failAt \in 0..n :
                VecDone("add_text",
                        vec_add_text(store[VecPath], text, NoMetadata, vec.batch_size, failAt),
                        <<Document(text, NoMetadata)>>, None)

\* vectorizer.add_texts(texts, metadatas), drawn from lists and metas
VecAddTextsOf(lists, metas) ==
    \E texts \in lists, metadatas \in metas :
        LET n == AddCalls(vec_add_texts(store[VecPath], texts, metadatas, vec.batch_size, 0))
        IN  \E failAt \in 0..n :
                VecDone("add_texts",
                        vec_add_texts(store[VecPath], texts, metadatas, vec.batch_size, failAt),
                        [i \in DOMAIN texts |-> Document(texts[i], NoMetadata)], metadatas)

VecAddDocuments == VecAddDocumentsOf(TextLists)

VecAddText == VecAddTextOf(Texts)

VecAddTexts == VecAddTextsOf(TextLists, MetaArgs)

\* vectorizer.set_batch_size(b)
VecSetBatchSize ==
    \E b \in BatchSizes :
        LET r == set_batch_size(vec.batch_size, b)
        IN  /\ vec' = [vec EXCEPT !.batch_size = r.batch_size]
            /\ last' = [NoLast EXCEPT !.op = "set_batch_size", !.path = VecPath,
                                      !.outcome = r.outcome, !.b = b,
                                      !.before = store[VecPath]]
            /\ UNCHANGED <<dirExists, dirFiles, store, storeInitWrites, webObjs, pdfObjs, seen, net, database>>

\* after DocumentVectorizer(db_path=..., batch_size=b): the directory made,
\* the store opened, the arguments kept as given
VecInit ==
    /\ storeInitWrites \in BOOLEAN
    /\ dirExists = init_vector_db([p \in {VecPath} |-> FALSE], [p \in {VecPath} |-> FALSE],
                                  VecPath, storeInitWrites).exists
    /\ dirFiles = init_vector_db([p \in {VecPath} |-> FALSE], [p \in {VecPath} |-> FALSE],
                                 VecPath, storeInitWrites).files
    /\ store = [p \in {VecPath} |-> <<>>]
    /\ vec \in [batch_size : BatchSizes, constructed : {TRUE}]
    /\ webObjs = {}
    /\ pdfObjs = {}
    /\ seen = <<>>
    /\ last = NoLast
    /\ net = NoNet
    /\ database = NoDatabase

VecNext ==
    \/ VecAddDocuments
    \/ VecAddText
    \/ VecAddTexts
    \/ VecSetBatchSize

VecSpec == VecInit /\ [][VecNext]_vars

---------------------------------------------------------------------------
(* ask() on a context over any store *)

\* the chunks a store can hold
ChunkDocs ==
    { Document(c, NoMetadata) : c \in { <<"a", "b">>, <<"c", "d", "e">>, <<"e", "f", "g">> } }

\* the stores of up to MaxStore records
AskStores ==
    UNION { { [i \in 1..n |-> [id |-> i, doc |-> f[i]]] : f \in [1..n -> ChunkDocs] } :
            n \in 0..MaxStore }

WebAskPath == db_path("https://a.example/policy", "web_chroma_dbs")

PdfAskPath == db_path("nz-immigration.pdf", "directory_chroma_dbs")

\* a WebContext and a PdfContext whose vectorstores hold the same records
AskInit ==
    /\ storeInitWrites \in BOOLEAN
    /\ dirExists = [p \in {WebAskPath, PdfAskPath} |-> TRUE]
    /\ dirFiles = [p \in {WebAskPath, PdfAskPath} |-> TRUE]
    /\ \E st \in AskStores : store = [p \in {WebAskPath, PdfAskPath} |-> st]
    /\ vec = NoVec
    /\ webObjs = {WebAskPath}
    /\ pdfObjs = {PdfAskPath}
    /\ seen = <<>>
    /\ last = NoLast
    /\ net = NoNet
    /\ database = NoDatabase

WebAskAny ==
    \E p \in webObjs, q \in Questions, k \in 0..MaxK, response \in LLMResponses :
        WebAsk(p, q, k, response)

PdfAskAny ==
    \E p \in pdfObjs, q \in Questions, k \in 0..MaxK, response \in LLMResponses :
        PdfAsk(p, q, k, response)

AskNext ==
    \/ WebAskAny
    \/ PdfAskAny

AskSpec == AskInit /\ [][AskNext]_vars

---------------------------------------------------------------------------
(* The DocumentVectorizer with a relational store *)

\* records the store of this vectorizer holds at most
MaxSqliteStore == 2

\* the value of the metadata column in the i-th row
TitleOf(i) == IF i = 1 THEN "first" ELSE IF i = 2 THEN "second" ELSE "later"

\* a table given by its rows' content values: NULL or '' (written <<>>),
\* whitespace only, or a text
TableOf(contents) == [i \in DOMAIN contents |-> Row(contents[i], <<TitleOf(i)>>)]

\* the tables the relational store can hold under the name
Tables ==
    { TableOf(<<>>), TableOf(<< <<>> >>), TableOf(<< <<" ">> >>),
      TableOf(<< <<"a", "b">> >>),
      TableOf(<< <<"a", "b">>, <<>> >>), TableOf(<< <<>>, <<"a", "b">> >>),
      TableOf(<< <<"a", "b">>, <<"a", "b">> >>),
      TableOf(<< <<>>, <<>>, <<"a", "b">> >>) }

TableName == "articles"

\* the sqlite_path and content_column arguments of the constructor
SqliteSettings == { <<NotSet, "body">>, <<"catalog.db", NotSet>>, <<"catalog.db", "body">> }

\* the batch_size argument of the constructor
SqliteBatchSize == 1

\* the arguments of the other operations
SqliteTexts == { <<" ">>, <<"a", "b">> }

SqliteTextLists == { << <<"a", "b">> >>, << <<"a", "b">>, <<"a", "b">> >> }

SqliteMetaArgs == { None, MetaList(<<NoMetadata>>) }

\* the state after ingest_from_sqlite read `table`
SqliteDone(r, table) ==
    /\ Len(r.store) <= MaxVecStore
    /\ store' = [store EXCEPT ![VecPath] = r.store]
    /\ dirFiles' = FilesAfter(dirFiles, VecPath, r.calls)
    /\ last' = [NoLast EXCEPT !.op = "ingest_from_sqlite", !.path = VecPath,
                              !.outcome = r.outcome, !.failed = r.failed,
                              !.calls = r.calls, !.handed = r.handed, !.ids = r.ids,
                              !.built = r.built, !.before = store[VecPath],
                              !.b = vec.batch_size, !.rows = table]
    /\ UNCHANGED <<dirExists, storeInitWrites, vec, webObjs, pdfObjs, seen, net, database>>

\* vectorizer.ingest_from_sqlite(table_name)
IngestFromSqlite ==
    \E table \in Tables, readable \in BOOLEAN :
        /\ readable \/ table = <<>>
        /\ LET n == AddCalls(ingest_from_sqlite(store[VecPath], vec, TableName, table,
                                                readable, 0))
           IN  \E failAt \in 0..n :
                   SqliteDone(ingest_from_sqlite(store[VecPath], vec, TableName, table,
                                                 readable, failAt),
                              table)

\* the state after an operation that only reads
VecRead(op, text, question, k, found) ==
    /\ last' = [NoLast EXCEPT !.op = op, !.path = VecPath, !.before = store[VecPath],
                              !.b = vec.batch_size, !.text = text,
                              !.question = question, !.k = k, !.found = found]
    /\ UNCHANGED <<dirExists, dirFiles, store, storeInitWrites, vec, webObjs, pdfObjs, seen, net, database>>

\* vectorizer.process_text(text): the chunks are returned, nothing is stored
VecProcessText ==
    \E text \in SqliteTexts :
        VecRead("process_text", text, <<>>, 0, process_text(text, NoMetadata))

\* vectorizer.similarity_search(query, k)
VecSimilaritySearch ==
    \E q \in Questions, k \in {0, MaxK} :
        VecRead("similarity_search", <<>>, q, k, similarity_search(store[VecPath], q, k))

\* vectorizer.similarity_search_with_score(query, k)
VecSimilaritySearchWithScore ==
    \E q \in Questions, k \in {0, MaxK} :
        VecRead("similarity_search_with_score", <<>>, q, k,
                similarity_search_with_score(store[VecPath], q, k))

\* after DocumentVectorizer(db_path=..., batch_size=b, sqlite_path=...,
\* content_column=..., metadata_columns=["title"])
SqliteInit ==
    /\ storeInitWrites \in BOOLEAN
    /\ dirExists = init_vector_db([p \in {VecPath} |-> FALSE], [p \in {VecPath} |-> FALSE],
                                  VecPath, storeInitWrites).exists
    /\ dirFiles = init_vector_db([p \in {VecPath} |-> FALSE], [p \in {VecPath} |-> FALSE],
                                 VecPath, storeInitWrites).files
    /\ store = [p \in {VecPath} |-> <<>>]
    /\ \E set \in SqliteSettings :
           vec = [batch_size |-> SqliteBatchSize, constructed |-> TRUE, sqlite_path |-> set[1],
                  content_column |-> set[2], metadata_columns |-> <<"title">>]
    /\ webObjs = {}
    /\ pdfObjs = {}
    /\ seen = <<>>
    /\ last = NoLast
    /\ net = NoNet
    /\ database = NoDatabase

\* the store stays within MaxSqliteStore records
SqliteFits == Len(store'[VecPath]) <= MaxSqliteStore

SqliteNext ==
    \/ IngestFromSqlite /\ SqliteFits
    \/ VecProcessText
    \/ VecAddTextOf(SqliteTexts) /\ SqliteFits
    \/ VecAddDocumentsOf(SqliteTextLists) /\ SqliteFits
    \/ VecAddTextsOf(SqliteTextLists, SqliteMetaArgs) /\ SqliteFits
    \/ VecSimilaritySearch
    \/ VecSimilaritySearchWithScore

SqliteSpec == SqliteInit /\ [][SqliteNext]_vars

---------------------------------------------------------------------------
(* The builders over a vectorizer *)

\* the batch_size of the builders' vectorizer
BuilderBatchSize == 2

\* records the store of the builders' vectorizer holds at most
MaxBuilderStore == 2

\* what DirectoryFileReader.collect_files returns, in traversal order
FileMaps ==
    { <<>>,
      << File("a.py", <<"a", "b">>) >>,
      << File("a.py", <<" ">>), File("b.md", <<"a", "b">>) >>,
      << File("a.py", <<"a", "b">>), File("b.md", <<"c", "d", "e", "f", "g">>) >>,
      << File("a.py", <<"a", "b">>), File("b.md", <<>>), File("c.py", <<"a", "b">>) >> }

\* the URLs and pages build_context is given
BuilderURLs ==
    { "https://a.example/policy", "ftp://c.example/file", "https:///policy",
      "a.example/policy", "HTTP://b.example/guide" }

BuilderPages == { Unreachable, <<>>, <<"a", "b">> }

\* no page was scraped
NoScrape == [success |-> TRUE, text |-> <<>>, calls |-> <<>>]

\* the state after a builder's operation; content is what the scraper returned
BuilderDone(op, r, id, file_map, failing, content) ==
    /\ Len(r.store) <= MaxBuilderStore
    /\ store' = [store EXCEPT ![VecPath] = r.store]
    /\ dirFiles' = FilesAfter(dirFiles, VecPath, r.calls)
    /\ last' = [NoLast EXCEPT !.op = op, !.id = id, !.path = VecPath,
                              !.outcome = r.outcome, !.failed = r.failed,
                              !.calls = r.calls, !.handed = r.handed, !.ids = r.ids,
                              !.built = r.built, !.before = store[VecPath],
                              !.b = vec.batch_size, !.files = file_map,
                              !.failing = failing, !.text = content.text,
                              !.success = content.success]
    /\ UNCHANGED <<dirExists, storeInitWrites, vec, webObjs, pdfObjs, seen, net, database>>

\* the files the summarizer LLM is called on
Summarized(file_map) == { i \in DOMAIN file_map : Strip(file_map[i].content) # <<>> }

\* ContextBuilder(file_reader, vectorizer, llm).ingest()
ContextBuilderIngest ==
    \E file_map \in FileMaps :
        \E failing \in SUBSET Summarized(file_map) :
            LET n == AddCalls(ContextBuilder_ingest(store[VecPath], vec.batch_size,
                                                    file_map, failing, 0))
            IN  \E failAt \in 0..n :
                    BuilderDone("ContextBuilder.ingest",
                                ContextBuilder_ingest(store[VecPath], vec.batch_size,
                                                      file_map, failing, failAt),
                                "", file_map, failing, NoScrape)

\* WebContextBuilder(web_scraper, vectorizer).build_context(url)
WebContextBuilderBuild ==
    \E url \in BuilderURLs, page \in BuilderPages :
        \E failAt \in FailuresAt(url, page) :
            BuilderDone("WebContextBuilder.build_context",
                        build_context(store[VecPath], vec.batch_size, url, page, failAt),
                        url, <<>>, {}, scrape(url, page))

\* the text the PDF at pdf_path holds
PdfTexts == { <<>>, <<" ">>, <<"a", "b">> }

\* PDFContextBuilder(pdf_extractor, vectorizer).build_context(pdf_path)
PdfContextBuilderBuild ==
    \E pdf_path \in PdfSources, text \in PdfTexts :
        BuilderDone("PDFContextBuilder.build_context",
                    PDFContextBuilder_build_context(store[VecPath], pdf_path),
                    pdf_path, <<>>, {}, [NoScrape EXCEPT !.text = text])

\* a vectorizer for the builders: DocumentVectorizer(db_path, batch_size)
BuilderInit ==
    /\ storeInitWrites \in BOOLEAN
    /\ dirExists = init_vector_db([p \in {VecPath} |-> FALSE], [p \in {VecPath} |-> FALSE],
                                  VecPath, storeInitWrites).exists
    /\ dirFiles = init_vector_db([p \in {VecPath} |-> FALSE], [p \in {VecPath} |-> FALSE],
                                 VecPath, storeInitWrites).files
    /\ store = [p \in {VecPath} |-> <<>>]
    /\ vec = [batch_size |-> BuilderBatchSize, constructed |-> TRUE]
    /\ webObjs = {}
    /\ pdfObjs = {}
    /\ seen = <<>>
    /\ last = NoLast
    /\ net = NoNet
    /\ database = NoDatabase

BuilderNext ==
    \/ ContextBuilderIngest
    \/ WebContextBuilderBuild
    \/ PdfContextBuilderBuild

BuilderSpec == BuilderInit /\ [][BuilderNext]_vars

---------------------------------------------------------------------------
(* The network calls of WebScraper.fetch_html and PDFTextExtractor._load_pdf *)

\* the ticks of the clock an unlimited wait is followed for
MaxWait == 3

\* WebScraper(timeout=...): the limit of page.goto, in ticks
WebTimeouts == { 1, 2 }

\* Playwright's default limit, which page.wait_for_load_state("networkidle")
\* is called with
LoadStateTimeout == 2

\* the sources of a PDFTextExtractor: a URL or a local path
PdfTargets == { "https://a.example/act.pdf", "nz-immigration.pdf" }

\* PDFTextExtractor._check_if_url
check_if_url(source) == source = "https://a.example/act.pdf"

\* the calls that wait for the remote host
Waiting == { "goto", "networkidle", "get" }

Ended == { "idle", "done", "failed" }

\* a call that waits with a limit of `timeout` ticks
TimedCall(pc, target, timeout, responds) ==
    [pc |-> pc, target |-> target, timed |-> TRUE, timeout |-> timeout, elapsed |-> 0,
     responds |-> responds, outcome |-> "none"]

\* a call that waits without limit
UntimedCall(pc, target, responds) ==
    [pc |-> pc, target |-> target, timed |-> FALSE, timeout |-> 0, elapsed |-> 0,
     responds |-> responds, outcome |-> "none"]

\* requests.get(self.source, stream=True): no timeout argument is given
requests_get(source, responds) == UntimedCall("get", source, responds)

\* a call that returned, with a value or by raising
EndCall(c, pc, outcome) == [c EXCEPT !.pc = pc, !.outcome = outcome]

NetStep(web, pdf) ==
    /\ net' = [web |-> web, pdf |-> pdf]
    /\ UNCHANGED <<dirExists, dirFiles, store, storeInitWrites, vec, webObjs, pdfObjs,
                   seen, last, database>>

\* fetch_html(url) begins: an invalid URL returns at once, a valid one
\* reaches page.goto(url, timeout=self.timeout)
WebFetchStart ==
    \E url \in WebURLs, timeout \in WebTimeouts, responds \in BOOLEAN :
        /\ net.web.pc \in Ended
        /\ NetStep(IF validate_url(url)
                   THEN TimedCall("goto", url, timeout, responds)
                   ELSE EndCall(TimedCall("idle", url, timeout, responds), "failed",
                                "Invalid URL format"),
                   net.pdf)

\* page.goto returned: page.wait_for_load_state("networkidle") begins
WebGotoReturns ==
    /\ net.web.pc = "goto" /\ net.web.responds
    /\ NetStep(TimedCall("networkidle", net.web.target, LoadStateTimeout, TRUE), net.pdf)

\* the page went idle: fetch_html returns the html
WebLoaded ==
    /\ net.web.pc = "networkidle"
    /\ NetStep(EndCall(net.web, "done", "html"), net.pdf)

\* a tick of the clock during a wait of the browser
WebTick ==
    /\ net.web.pc \in Waiting
    /\ net.web.elapsed < MaxWait
    /\ net.web.timed => net.web.elapsed < net.web.timeout
    /\ NetStep([net.web EXCEPT !.elapsed = @ + 1], net.pdf)

\* the limit of a wait expired: Playwright raises TimeoutError, which the
\* except clause of fetch_html turns into (None, {"error": ...})
WebTimeout ==
    /\ net.web.pc \in Waiting
    /\ net.web.timed /\ net.web.elapsed = net.web.timeout
    /\ NetStep(EndCall(net.web, "failed", "TimeoutError"), net.pdf)

\* _load_pdf begins: requests.get for a URL, PdfReader(path) for a local file
PdfLoadStart ==
    \E source \in PdfTargets, responds \in BOOLEAN, found \in BOOLEAN :
        /\ net.pdf.pc \in Ended
        /\ NetStep(net.web,
                   IF check_if_url(source) THEN requests_get(source, responds)
                   ELSE EndCall(UntimedCall("idle", source, responds),
                                IF found THEN "done" ELSE "failed",
                                IF found THEN "reader" ELSE "PDF file not found"))

\* the host answered: raise_for_status, then PdfReader(stream)
PdfResponds ==
    \E status_ok \in BOOLEAN :
        /\ net.pdf.pc = "get" /\ net.pdf.responds
        /\ NetStep(net.web,
                   EndCall(net.pdf, IF status_ok THEN "done" ELSE "failed",
                           IF status_ok THEN "reader" ELSE "Error downloading PDF from URL"))

\* a tick of the clock while requests.get waits
PdfTick ==
    /\ net.pdf.pc \in Waiting
    /\ net.pdf.elapsed < MaxWait
    /\ net.pdf.timed => net.pdf.elapsed < net.pdf.timeout
    /\ NetStep(net.web, [net.pdf EXCEPT !.elapsed = @ + 1])

\* a WebScraper and a PDFTextExtractor, no call made yet
NetInit ==
    /\ storeInitWrites = FALSE
    /\ dirExists = <<>>
    /\ dirFiles = <<>>
    /\ store = <<>>
    /\ vec = NoVec
    /\ webObjs = {}
    /\ pdfObjs = {}
    /\ seen = <<>>
    /\ last = NoLast
    /\ net = NoNet
    /\ database = NoDatabase

NetNext ==
    \/ WebFetchStart
    \/ WebGotoReturns
    \/ WebLoaded
    \/ WebTick
    \/ WebTimeout
    \/ PdfLoadStart
    \/ PdfResponds
    \/ PdfTick

NetSpec == NetInit /\ [][NetNext]_vars

---------------------------------------------------------------------------
(* DirectoryFileReader *)

\* the root directory, as a path of names below it
Root == <<>>

\* os.listdir(dir) in the tree the reader is pointed at
Listing(dir) ==
    CASE dir = Root -> <<"a.py", "B.PY", "notes.txt", "build", "lib">>
      [] dir = <<"build">> -> <<"gen.py">>
      [] dir = <<"lib">> -> <<"c.md", "deep">>
      [] dir = <<"lib", "deep">> -> <<"d.py", "deeper">>
      [] dir = <<"lib", "deep", "deeper">> -> <<"e.py">>
      [] OTHER -> <<>>

\* os.path.isdir(path)
IsDir(path) ==
    path \in { Root, <<"build">>, <<"lib">>, <<"lib", "deep">>, <<"lib", "deep", "deeper">> }

\* os.path.splitext(item)[1].lower().lstrip(".")
FileExt(item) ==
    CASE item \in {"a.py", "B.PY", "gen.py", "d.py", "e.py"} -> "py"
      [] item = "c.md" -> "md"
      [] item = "notes.txt" -> "txt"
      [] OTHER -> ""

\* a DirectoryFileReader: gitignore is the set of paths the PathSpec loaded
\* from .gitignore matches; loaded is whether a .gitignore was found;
\* unreadable are the directories os.listdir raises PermissionError on
Reader(file_extensions, max_depth, respect_gitignore, loaded, gitignore, unreadable) ==
    [file_extensions |-> file_extensions, max_depth |-> max_depth,
     respect_gitignore |-> respect_gitignore, loaded |-> loaded,
     gitignore |-> gitignore, unreadable |-> unreadable]

\* DirectoryFileReader._is_ignored
is_ignored(r, path) ==
    IF ~r.respect_gitignore \/ ~r.loaded THEN FALSE
    ELSE path \in r.gitignore

RECURSIVE traverse_directory(_, _, _, _)
RECURSIVE TraverseItems(_, _, _, _, _)

\* Mutant of traverse_directory: the depth test lets one more level through
traverse_directory_deeper(r, current_dir, result, current_depth) ==
    IF r.max_depth >= 0 /\ current_depth > r.max_depth + 1 THEN result
    ELSE IF is_ignored(r, current_dir) THEN result
    ELSE IF current_dir \in r.unreadable THEN result
    ELSE TraverseItems(r, current_dir, result, current_depth, 1)

\* DirectoryFileReader._traverse_directory: result is the list of the keys
\* of the dictionary, in insertion order
traverse_directory(r, current_dir, result, current_depth) ==
    IF r.max_depth >= 0 /\ current_depth > r.max_depth THEN result
    ELSE IF is_ignored(r, current_dir) THEN result
    ELSE IF current_dir \in r.unreadable THEN result
    ELSE TraverseItems(r, current_dir, result, current_depth, 1)

\* the loop of _traverse_directory over os.listdir(current_dir), from item i
TraverseItems(r, current_dir, result, current_depth, i) ==
    IF i > Len(Listing(current_dir)) THEN result
    ELSE LET item == Listing(current_dir)[i]
             item_path == Append(current_dir, item)
         IN  IF is_ignored(r, item_path)
             THEN TraverseItems(r, current_dir, result, current_depth, i + 1)
             ELSE IF IsDir(item_path)
             THEN TraverseItems(r, current_dir,
                                traverse_directory(r, item_path, result, current_depth + 1),
                                current_depth, i + 1)
             ELSE IF FileExt(item) \in r.file_extensions
             THEN TraverseItems(r, current_dir, Append(result, item_path),
                                current_depth, i + 1)
             ELSE TraverseItems(r, current_dir, result, current_depth, i + 1)

\* DirectoryFileReader.collect_files: the paths of the mapping it returns
collect_files(r) == traverse_directory(r, Root, <<>>, 0)

\* the arguments of the constructor
ExtensionLists == { {"py", "md"}, {"py"}, {"md", "txt"} }

MaxDepths == { -1, 0, 1, 2 }

\* what the rules of a .gitignore can match
GitIgnores ==
    { {}, { <<"build">>, <<"build", "gen.py">> }, { <<"a.py">> },
      { <<"lib", "deep">> }, { <<"lib", "deep">>, <<"a.py">> },
      { <<"build", "gen.py">>, <<"lib", "c.md">> } }

Unreadables == { {}, { <<"lib", "deep">> } }

\* reader = DirectoryFileReader(...); reader.collect_files()
CollectFiles ==
    \E file_extensions \in ExtensionLists, max_depth \in MaxDepths,
       respect_gitignore \in BOOLEAN, loaded \in BOOLEAN,
       gitignore \in GitIgnores, unreadable \in Unreadables :
        /\ ~loaded => gitignore = {}
        /\ last' = [NoLast EXCEPT
                       !.op = "collect_files",
                       !.reader = Reader(file_extensions, max_depth, respect_gitignore,
                                         loaded, gitignore, unreadable),
                       !.paths = collect_files(Reader(file_extensions, max_depth,
                                                      respect_gitignore, loaded,
                                                      gitignore, unreadable))]
        /\ UNCHANGED <<dirExists, dirFiles, store, storeInitWrites, vec, webObjs, pdfObjs,
                       seen, net, database>>

\* before the reader is used
ReaderInit ==
    /\ storeInitWrites = FALSE
    /\ dirExists = <<>>
    /\ dirFiles = <<>>
    /\ store = <<>>
    /\ vec = NoVec
    /\ webObjs = {}
    /\ pdfObjs = {}
    /\ seen = <<>>
    /\ last = NoLast
    /\ net = NoNet
    /\ database = NoDatabase

ReaderNext == CollectFiles

ReaderSpec == ReaderInit /\ [][ReaderNext]_vars

---------------------------------------------------------------------------
(* The relational Database: the files table *)

\* the ids create_file is followed up to
MaxFileId == 3

\* a NULL value (Python's None) given for a column
DbNull == "<NULL>"

Directories == { "src", "docs", DbNull }

FileContents == { "print(1)", "# notes" }

\* the ids the callers ask for: 0 is an id no row ever has
FileIds == 0..MaxFileId

\* a Database on a new file: the table is created empty, nothing in the
\* table's AUTOINCREMENT sequence
NewDatabase == [open |-> TRUE, files |-> <<>>, seq |-> 0]

\* the NOT NULL constraints of the table
NotNull(directory, content) == directory # DbNull /\ content # DbNull

\* the largest id of the table, 0 when it is empty
MaxRowId(files) ==
    IF DOMAIN files = {} THEN 0
    ELSE CHOOSE i \in DOMAIN files : \A j \in DOMAIN files : j <= i

\* Mutant of create_file: the id column without AUTOINCREMENT, where the new
\* id is one more than the largest id in the table
create_file_rowid(db, directory, content) ==
    IF ~NotNull(directory, content)
    THEN [db |-> db, result |-> <<>>, outcome |-> "IntegrityError"]
    ELSE LET id == MaxRowId(db.files) + 1
         IN  [db |-> [db EXCEPT !.files = [i \in DOMAIN db.files \cup {id} |->
                                              IF i = id
                                              THEN [directory |-> directory,
                                                    content |-> content]
                                              ELSE db.files[i]],
                                !.seq = id],
              result |-> <<id>>, outcome |-> "ok"]

\* Database.create_file: INSERT under id INTEGER PRIMARY KEY AUTOINCREMENT,
\* whose new id is one more than the largest id the table ever held;
\* result is <<cursor.lastrowid>>
create_file(db, directory, content) ==
    IF ~NotNull(directory, content)
    THEN [db |-> db, result |-> <<>>, outcome |-> "IntegrityError"]
    ELSE LET id == db.seq + 1
         IN  [db |-> [db EXCEPT !.files = [i \in DOMAIN db.files \cup {id} |->
                                              IF i = id
                                              THEN [directory |-> directory,
                                                    content |-> content]
                                              ELSE db.files[i]],
                                !.seq = id],
              result |-> <<id>>, outcome |-> "ok"]

\* Database.get_file_by_id: cursor.fetchone(), the row (id, directory,
\* content), or None, written <<>>
get_file_by_id(db, file_id) ==
    IF file_id \in DOMAIN db.files
    THEN <<file_id, db.files[file_id].directory, db.files[file_id].content>>
    ELSE <<>>

\* Mutant of update_file: INSERT OR REPLACE, which writes the row also when
\* the id is not in the table
update_file_upsert(db, file_id, directory, content) ==
    IF ~NotNull(directory, content)
    THEN [db |-> db, result |-> <<>>, outcome |-> "IntegrityError"]
    ELSE [db |-> [db EXCEPT !.files = [i \in DOMAIN db.files \cup {file_id} |->
                                          IF i = file_id
                                          THEN [directory |-> directory,
                                                content |-> content]
                                          ELSE db.files[i]]],
          result |-> <<TRUE>>, outcome |-> "ok"]

\* Database.update_file: UPDATE ... WHERE id = ?; result is <<rowcount > 0>>
update_file(db, file_id, directory, content) ==
    IF file_id \notin DOMAIN db.files
    THEN [db |-> db, result |-> <<FALSE>>, outcome |-> "ok"]
    ELSE IF ~NotNull(directory, content)
    THEN [db |-> db, result |-> <<>>, outcome |-> "IntegrityError"]
    ELSE [db |-> [db EXCEPT !.files[file_id] =
                                [directory |-> directory, content |-> content]],
          result |-> <<TRUE>>, outcome |-> "ok"]

\* Database.delete_file: DELETE ... WHERE id = ?; result is <<rowcount > 0>>
delete_file(db, file_id) ==
    IF file_id \notin DOMAIN db.files
    THEN [db |-> db, result |-> <<FALSE>>, outcome |-> "ok"]
    ELSE [db |-> [db EXCEPT !.files = [i \in DOMAIN db.files \ {file_id} |-> db.files[i]]],
          result |-> <<TRUE>>, outcome |-> "ok"]

\* what the callers were told so far: the ids create_file returned, and for
\* every id the values last written with success and not since deleted
NoHistory == [issued |-> {}, written |-> <<>>]

\* the state after an operation of the Database that returned r; written is
\* the callers' record after it
DbDone(op, r, file_id, args, written) ==
    /\ database' = r.db
    /\ last' = [NoLast EXCEPT !.op = op, !.outcome = r.outcome, !.file_id = file_id,
                              !.args = args, !.returned = r.result]
    /\ seen' = [issued |-> IF op = "create_file" /\ r.outcome = "ok"
                           THEN seen.issued \cup {r.result[1]} ELSE seen.issued,
                written |-> written]
    /\ UNCHANGED <<dirExists, dirFiles, store, storeInitWrites, vec, webObjs, pdfObjs, net>>

\* the callers' record with id set to the values given
Written(id, directory, content) ==
    [i \in DOMAIN seen.written \cup {id} |->
        IF i = id THEN [directory |-> directory, content |-> content]
        ELSE seen.written[i]]

\* database.create_file(directory, content)
DbCreateFile(r, directory, content) ==
    /\ database.seq < MaxFileId
    /\ DbDone("create_file", r, 0, <<directory, content>>,
              IF r.outcome = "ok" THEN Written(r.result[1], directory, content)
              ELSE seen.written)

\* database.update_file(file_id, directory, content)
DbUpdateFile(r, file_id, directory, content) ==
    DbDone("update_file", r, file_id, <<directory, content>>,
           IF r.outcome = "ok" /\ r.result = <<TRUE>>
           THEN Written(file_id, directory, content)
           ELSE seen.written)

\* database.delete_file(file_id)
DbDeleteFile(r, file_id) ==
    DbDone("delete_file", r, file_id, <<>>,
           IF r.outcome = "ok" /\ r.result = <<TRUE>>
           THEN [i \in DOMAIN seen.written \ {file_id} |-> seen.written[i]]
           ELSE seen.written)

\* database.get_file_by_id(file_id)
DbGetFileById(file_id) ==
    /\ database.open
    /\ DbDone("get_file_by_id",
              [db |-> database, result |-> get_file_by_id(database, file_id),
               outcome |-> "ok"],
              file_id, <<>>, seen.written)

\* Database(db_path) on a new file
DbInit ==
    /\ storeInitWrites = FALSE
    /\ dirExists = <<>>
    /\ dirFiles = <<>>
    /\ store = <<>>
    /\ vec = NoVec
    /\ webObjs = {}
    /\ pdfObjs = {}
    /\ seen = NoHistory
    /\ last = NoLast
    /\ net = NoNet
    /\ database = NewDatabase

DbNext ==
    \/ \E directory \in Directories, content \in FileContents :
           DbCreateFile(create_file(database, directory, content), directory, content)
    \/ \E file_id \in FileIds, directory \in Directories, content \in FileContents :
           DbUpdateFile(update_file(database, file_id, directory, content),
                        file_id, directory, content)
    \/ \E file_id \in FileIds : DbDeleteFile(delete_file(database, file_id), file_id)
    \/ \E file_id \in FileIds : DbGetFileById(file_id)

DbSpec == DbInit /\ [][DbNext]_vars

---------------------------------------------------------------------------
(* Properties *)

AddOps == {"add_documents", "add_text", "add_texts"}

CeilDiv(n, b) == (n + b - 1) \div b

\* the lists of a sequence of lists, concatenated
RECURSIVE Flatten(_)
Flatten(lists) == IF lists = <<>> THEN <<>> ELSE Head(lists) \o Flatten(Tail(lists))

\* the documents of the add calls 1..n of an operation, in call order
AddedDocs(l, n) ==
    LET adds == CallsOf(l.calls, "add")
    IN  Flatten([i \in 1..n |-> adds[i].arg])

DocsOf(st) == [i \in DOMAIN st |-> st[i].doc]

IsPrefix(s, t) == Len(s) <= Len(t) /\ SubSeq(t, 1, Len(s)) = s

Cached(p) == db_exists(dirExists, dirFiles, p)

IsWebInit(l) == l.op = "WebContext"

Ingesting(l) == IsWebInit(l) /\ (l.force \/ ~l.cached)

\* C1: with batch_size b >= 1, N items handed to _add_documents_in_batches
\* go to the store in one add call when N <= b and in ceil(N / b) calls
\* otherwise, every call but the last carrying exactly b items and the calls
\* together carrying the items in order; the ids returned are N, the i-th
\* being the id under which the i-th item is stored.
C1_Batching ==
    (last.op \in AddOps /\ last.outcome = "ok" /\ last.b >= 1) =>
        LET N == Len(last.handed)
            b == last.b
            adds == CallsOf(last.calls, "add")
            st == store[last.path]
        IN  /\ N <= b => Len(adds) = 1 /\ adds[1].arg = last.handed
            /\ N > b =>
                   /\ Len(adds) = CeilDiv(N, b)
                   /\ \A i \in 1..(Len(adds) - 1) : Len(adds[i].arg) = b
                   /\ Len(adds[Len(adds)].arg) \in 1..b
                   /\ AddedDocs(last, Len(adds)) = last.handed
            /\ Len(last.ids) = N
            /\ Len(st) = Len(last.before) + N
            /\ \A i \in 1..N :
                   st[Len(last.before) + i] = [id |-> last.ids[i], doc |-> last.handed[i]]

\* C1 witness: three chunks went out in batches of two, then one
C1_Witness ==
    /\ last.op = "add_documents" /\ last.outcome = "ok"
    /\ last.b = 2 /\ Len(last.handed) = 3
    /\ Len(CallsOf(last.calls, "add")) = 2

\* C2: when the store's add fails on batch j, the call ends with that error
\* and no ids, no batch after j is attempted, persist is not reached, and
\* the store holds what it held before plus the chunks of batches 1..j-1.
C2_NoRollback ==
    (last.op \in AddOps /\ last.outcome = "StoreError") =>
        LET adds == CallsOf(last.calls, "add")
            j == last.failed
        IN  /\ j >= 1
            /\ Len(adds) = j
            /\ last.ids = <<>>
            /\ CallsOf(last.calls, "persist") = <<>>
            /\ DocsOf(store[last.path]) = DocsOf(last.before) \o AddedDocs(last, j - 1)
            /\ IsPrefix(last.before, store[last.path])

\* C2 witness: the second batch failed after the first was stored
C2_Witness ==
    /\ last.op \in {"add_documents", "add_text"} /\ last.outcome = "StoreError"
    /\ last.failed = 2
    /\ Len(store[last.path]) > Len(last.before)

\* C3 as claimed: add_texts with a metadatas list of another length than
\* texts fails with the validation error before a Document is built and before
\* any splitter or store call, the empty list included.
C3_LengthMismatchRejected ==
    (last.op = "add_texts" /\ last.metasGiven /\ last.nMetas # last.nTexts) =>
        /\ last.outcome = "ValueError"
        /\ last.built = 0
        /\ Len(last.calls) = 0

\* C4: a construction with force_rescrape=False for a source whose store
\* exists makes no scraper, splitter or store call and leaves the store as
\* it is; and when it follows a construction with force_rescrape=False that
\* ingested the same URL, fetch_html ran once over the two and the store the
\* object's ask() reads is the one the first construction wrote.
C4_LoadsAsItIs ==
    (IsWebInit(last) /\ ~last.force /\ last.cached) =>
        /\ Len(last.calls) = 0
        /\ last.outcome = "ok"
        /\ store[last.path] = last.before
        /\ last.path \in webObjs

C4_TwiceFetchesOnce ==
    (/\ IsWebInit(last) /\ ~last.force /\ ~last.cached /\ last.outcome = "ok"
     /\ IsWebInit(last') /\ ~last'.force
     /\ last'.id = last.id /\ last'.base = last.base)
    => /\ Len(CallsOf(last.calls, "fetch_html")) + Len(CallsOf(last'.calls, "fetch_html")) = 1
       /\ Len(last'.calls) = 0
       /\ store'[last'.path] = store[last.path]
       /\ DocsOf(store'[last'.path]) = DocsOf(last.before) \o last.handed

C4_Idempotent == []C4_LoadsAsItIs /\ [][C4_TwiceFetchesOnce]_vars

\* C4 witness: a second construction loaded the store an earlier one wrote
C4_Witness ==
    /\ IsWebInit(last) /\ ~last.force /\ last.cached /\ last.outcome = "ok"
    /\ store[last.path] # <<>>
    /\ last.path \in webObjs

\* C5 as claimed: a source is Cached only if a construction persisted chunks
\* of non-empty text for it, and a failing construction leaves an Uncached
\* source Uncached.
C5_CachedOnlyByIngestion ==
    /\ \A p \in DOMAIN store : Cached(p) => store[p] # <<>>
    /\ (IsWebInit(last) /\ last.outcome # "ok" /\ ~last.cached) => ~Cached(last.path)

\* C6: a construction for an Uncached source, or with force_rescrape=True,
\* calls scrape once; with empty scraped text it fails and the store is
\* left as it was, without any add call; otherwise the text is split and its
\* chunks are handed to the store, which holds them once the add succeeded
\* and is then persisted.
C6_IngestOrFail ==
    Ingesting(last) =>
        /\ Len(CallsOf(last.calls, "scrape")) = 1
        /\ last.text = <<>> =>
               /\ last.outcome = "ValueError"
               /\ store[last.path] = last.before
               /\ CallsOf(last.calls, "add") = <<>>
        /\ last.text # <<>> =>
               /\ CallsOf(last.calls, "split") # <<>>
               /\ last.handed # <<>>
               /\ AddedDocs(last, Len(CallsOf(last.calls, "add"))) = last.handed
               /\ last.outcome \in {"ok", "StoreError"}
               /\ last.outcome = "ok" =>
                      /\ DocsOf(store[last.path]) = DocsOf(last.before) \o last.handed
                      /\ Len(CallsOf(last.calls, "persist")) = 1
                      /\ Cached(last.path)

\* C6 witness: the first construction for a URL stored its two chunks
C6_Witness ==
    /\ IsWebInit(last) /\ ~last.cached /\ ~last.force /\ last.outcome = "ok"
    /\ Len(last.handed) = 2
    /\ DocsOf(store[last.path]) = last.handed

\* C7: a Cached source stays Cached through every operation.
C7_StaysCached ==
    [][\A p \in DOMAIN store : Cached(p) => db_exists(dirExists', dirFiles', p)]_vars

\* C7 witness: a forced construction failed on a Cached source, still Cached
C7_Witness ==
    /\ IsWebInit(last) /\ last.cached /\ last.force /\ last.outcome # "ok"
    /\ Cached(last.path)

C9_KeyDeterministic ==
    (last.op \in {"WebContext", "PdfContext"}) =>
        LET first == seen[<<last.id, last.base>>]
        IN  /\ first.computed
            /\ last.digest = first.digest
            /\ last.path = first.path
            /\ Len(last.digest) = 16
            /\ \A i \in DOMAIN last.digest : last.digest[i] \in HexDigits
            /\ last.path # NoPath => last.path = <<last.base, last.digest>>

\* C9 witness: a later construction, forced, for a Cached source with
\* another page than before, computed the key again
C9_Witness ==
    /\ IsWebInit(last) /\ last.cached /\ last.force
    /\ last.text # <<>> /\ last.before # <<>>
    /\ last.handed # DocsOf(last.before)
    /\ last.path = seen[<<last.id, last.base>>].path

AskOps == {"WebContext.ask", "PdfContext.ask"}

\* C10: when the similarity search of ask(question, k) finds nothing, as on
\* an empty store or with k = 0, ask returns the fallback message and the
\* LLM is not invoked, for WebContext and for PdfContext.
C10_EmptySearchFallback ==
    (last.op \in AskOps) =>
        /\ (last.before = <<>> \/ last.k = 0) => last.found = <<>>
        /\ last.found = <<>> =>
               /\ last.result = FallbackMessage
               /\ CallsOf(last.calls, "llm") = <<>>
               /\ Len(last.calls) = 1

\* C10 witness: PdfContext.ask with k = 0 over a store that holds chunks
C10_Witness ==
    /\ last.op = "PdfContext.ask" /\ last.k = 0
    /\ last.before # <<>>
    /\ last.result = FallbackMessage
    /\ CallsOf(last.calls, "llm") = <<>>

IsWhitespace(c) == c \in Whitespace

\* C11: when the similarity search of ask(question, k) finds chunks, the LLM
\* is invoked once, with the question as given and with a document that is
\* the contents of the chunks similarity_search(question, k) returned, in
\* rank order, joined by the separator; ask returns the LLM's response
\* without its leading and trailing whitespace.
C11_AnswersFromChunks ==
    (last.op \in AskOps /\ last.found # <<>>) =>
        LET llm == CallsOf(last.calls, "llm")
            sep == IF last.op = "WebContext.ask" THEN WebSeparator ELSE PdfSeparator
            contents == [i \in DOMAIN last.found |-> last.found[i].page_content]
        IN  /\ Len(llm) = 1
            /\ llm[1].arg.question = last.question
            /\ llm[1].arg.document = Join(sep, contents)
            /\ last.found = similarity_search(last.before, last.question, last.k)
            /\ Len(last.found) <= last.k
            /\ \E i \in 0..Len(last.response), j \in 0..Len(last.response) :
                   /\ i + Len(last.result) + j = Len(last.response)
                   /\ last.result = SubSeq(last.response, i + 1, Len(last.response) - j)
                   /\ \A n \in 1..i : IsWhitespace(last.response[n])
                   /\ \A n \in (Len(last.response) - j + 1)..Len(last.response) :
                          IsWhitespace(last.response[n])
            /\ last.result # <<>> =>
                   /\ ~IsWhitespace(last.result[1])
                   /\ ~IsWhitespace(last.result[Len(last.result)])

\* C11 witness: WebContext.ask with k = 1 over two chunks sent the nearest
\* one to the LLM and trimmed its answer
C11_Witness ==
    /\ last.op = "WebContext.ask" /\ last.k = 1
    /\ Len(last.before) = 2 /\ Len(last.found) = 1
    /\ Len(CallsOf(last.calls, "llm")) = 1
    /\ Len(last.result) < Len(last.response)

\* the chunks of one document, each carrying the document's metadata
ChunksOf(d) ==
    LET cs == split_text(d.page_content)
    IN  [i \in DOMAIN cs |-> Document(cs[i], d.metadata)]

\* C12 as claimed: a successful add_documents returns one id per chunk of
\* the documents, in document order and then chunk order, and stores every
\* chunk once under its id, whatever batch_size the vectorizer has.
C12_OneIdPerChunk ==
    (last.op = "add_documents" /\ last.outcome = "ok") =>
        LET chunks == Flatten([i \in DOMAIN last.docs |-> ChunksOf(last.docs[i])])
        IN  /\ Len(last.ids) = Len(chunks)
            /\ \A i, j \in DOMAIN last.ids : i # j => last.ids[i] # last.ids[j]
            /\ \A i \in DOMAIN last.ids, j \in DOMAIN last.before :
                   last.ids[i] # last.before[j].id
            /\ store[last.path] =
                   last.before \o [i \in DOMAIN last.ids |->
                                      [id |-> last.ids[i], doc |-> chunks[i]]]

RecordsOf(st) == { st[i] : i \in DOMAIN st }

\* C13: the store is append-only under the vectorizer: whatever process_text,
\* add_text, add_documents, add_texts, ingest_from_sqlite, similarity_search
\* or similarity_search_with_score call is made, and whether it succeeds or
\* fails, every record stored before it is stored after it, with its id and
\* its chunk.
C13_AppendOnly ==
    [][\A p \in DOMAIN store : RecordsOf(store[p]) \subseteq RecordsOf(store'[p])]_vars

\* C13 witness: an ingest_from_sqlite that failed in its second batch, over a
\* store that held a record, left that record and the first batch stored
C13_Witness ==
    /\ last.op = "ingest_from_sqlite" /\ last.outcome = "StoreError" /\ last.failed = 2
    /\ last.before # <<>>
    /\ RecordsOf(last.before) \subseteq RecordsOf(store[last.path])
    /\ Len(store[last.path]) = Len(last.before) + 1

\* the metadata keys that name where a document came from
SourceKeys == { "url", "file_path", "source" }

HasSource(doc) == \E kv \in doc.metadata : kv[1] \in SourceKeys

\* C14 as claimed: every chunk in a vector store carries metadata that
\* names the source (file path or URL) of the document it came from.
C14_ChunksCarrySource ==
    \A p \in DOMAIN store : \A i \in DOMAIN store[p] : HasSource(store[p][i].doc)

\* the indices 1..n in order
Indices(n) == [i \in 1..n |-> i]

\* C15: in ContextBuilder.ingest a failure of the summarizer LLM on a file
\* skips that file only: the LLM is still called on every later file with
\* non-whitespace content, add_documents is called once, and its documents
\* are those of the files with non-whitespace content whose summarization
\* succeeded, in collection order, each with metadata file_path and summary.
C15_SkipsFailedFileOnly ==
    (last.op = "ContextBuilder.ingest") =>
        LET files == last.files
            nonblank == SelectSeq(Indices(Len(files)),
                                  LAMBDA i : Strip(files[i].content) # <<>>)
            kept == SelectSeq(nonblank, LAMBDA i : i \notin last.failing)
            adds == CallsOf(last.calls, "add_documents")
            llm == CallsOf(last.calls, "llm")
        IN  /\ Len(llm) = Len(nonblank)
            /\ \A j \in DOMAIN llm : llm[j].arg = files[nonblank[j]].path
            /\ Len(adds) = 1
            /\ Len(adds[1].arg) = Len(kept)
            /\ \A j \in DOMAIN kept :
                   /\ adds[1].arg[j].page_content = files[kept[j]].content
                   /\ adds[1].arg[j].metadata =
                          { <<"file_path", files[kept[j]].path>>,
                            <<"summary", SummaryOf(files[kept[j]])>> }
            /\ last.outcome \in {"ok", "StoreError"}

\* C15 witness: of three files the first failed in the LLM and the second
\* was empty; the third alone was summarized and stored
C15_Witness ==
    /\ last.op = "ContextBuilder.ingest" /\ last.outcome = "ok"
    /\ Len(last.files) = 3 /\ last.failing = {1}
    /\ Len(CallsOf(last.calls, "llm")) = 2
    /\ Len(store[last.path]) = Len(last.before) + 1
    /\ store[last.path][Len(store[last.path])].doc.page_content = last.files[3].content

\* a text that is empty or consists only of whitespace
BlankText(t) == \A i \in DOMAIN t : IsWhitespace(t[i])

\* the texts a call hands to the vectorizer
TextsHanded(c) ==
    IF c.fn = "add_texts" THEN c.arg.texts
    ELSE IF c.fn = "add_documents" THEN [i \in DOMAIN c.arg |-> c.arg[i].page_content]
    ELSE <<>>

\* C16 as claimed: no ingestion path passes a text that is empty or
\* consists only of whitespace to add_texts or add_documents.
C16_NoBlankTextHanded ==
    (last.op \in {"ingest_from_sqlite", "ContextBuilder.ingest",
                  "WebContextBuilder.build_context"}) =>
        \A j \in DOMAIN last.calls :
            \A i \in DOMAIN TextsHanded(last.calls[j]) :
                ~BlankText(TextsHanded(last.calls[j])[i])

\* the relational store path or the content column was never configured
Unconfigured(v) == v.sqlite_path = NotSet \/ v.content_column = NotSet

\* C17: ingest_from_sqlite on a vectorizer whose relational store path or
\* content column was never configured fails with the configuration error
\* (ValueError) before any connection is opened and before any write to the
\* vector store: it makes no call at all, and the vectorizer, the store and
\* the store's files are as they were.
C17_ConfigurationErrorFirst ==
    [][(last'.op = "ingest_from_sqlite" /\ Unconfigured(vec)) =>
          /\ last'.outcome = "ValueError"
          /\ CallsOf(last'.calls, "connect") = <<>>
          /\ last'.calls = <<>>
          /\ last'.ids = <<>>
          /\ vec' = vec
          /\ store' = store
          /\ dirFiles' = dirFiles
          /\ dirExists' = dirExists]_vars

\* C17 witness: the configuration error was raised although the table had a
\* row with content and the store already held a record
C17_Witness ==
    /\ last.op = "ingest_from_sqlite" /\ last.outcome = "ValueError"
    /\ Unconfigured(vec)
    /\ \E i \in DOMAIN last.rows : Truthy(last.rows[i].content)
    /\ last.before # <<>>
    /\ store[last.path] = last.before

\* C18: ingest_from_sqlite passes to add_texts exactly the rows of the table
\* whose content is non-empty, in table order, each text with the metadata
\* built from its own row, texts and metadatas of equal length; when no row
\* has non-empty content it returns an empty id list and makes no add_texts,
\* store add or persist call.
C18_KeptRowsInOrder ==
    (last.op = "ingest_from_sqlite" /\ ~Unconfigured(vec)
                                    /\ last.outcome # "OperationalError") =>
        LET kept == SelectSeq(Indices(Len(last.rows)),
                              LAMBDA i : last.rows[i].content # <<>>)
            adds == CallsOf(last.calls, "add_texts")
        IN  IF kept = <<>>
            THEN /\ last.outcome = "ok" /\ last.ids = <<>>
                 /\ adds = <<>>
                 /\ CallsOf(last.calls, "add") = <<>>
                 /\ CallsOf(last.calls, "persist") = <<>>
                 /\ store[last.path] = last.before
            ELSE /\ last.outcome \in {"ok", "StoreError"}
                 /\ Len(adds) = 1
                 /\ Len(adds[1].arg.texts) = Len(kept)
                 /\ Len(adds[1].arg.metadatas) = Len(kept)
                 /\ \A j \in DOMAIN kept :
                        /\ adds[1].arg.texts[j] = last.rows[kept[j]].content
                        /\ adds[1].arg.metadatas[j] =
                               RowMetadata(vec.metadata_columns, last.rows[kept[j]])

\* C18 witness: of three rows only the third had content; it was stored with
\* the third row's metadata
C18_Witness ==
    /\ last.op = "ingest_from_sqlite" /\ last.outcome = "ok"
    /\ Len(last.rows) = 3 /\ last.rows[1].content = <<>> /\ last.rows[3].content # <<>>
    /\ last.ids # <<>>
    /\ store[last.path][Len(store[last.path])].doc.metadata = { <<"title", TitleOf(3)>> }

\* C18 witness of the empty case: a table with rows, none with content
C18_WitnessNoContent ==
    /\ last.op = "ingest_from_sqlite" /\ last.outcome = "ok"
    /\ last.rows # <<>> /\ \A i \in DOMAIN last.rows : last.rows[i].content = <<>>
    /\ last.ids = <<>>

\* C19 as claimed: when the web scraper's fetch fails (invalid URL or
\* transport error), WebContextBuilder.build_context ends with an error
\* rather than returning normally, and nothing is written to the store.
C19_FetchFailureSignalled ==
    (last.op = "WebContextBuilder.build_context" /\ ~last.success) =>
        /\ last.outcome # "ok"
        /\ store[last.path] = last.before

\* C20 as claimed: batch_size is positive in every reachable state of a
\* DocumentVectorizer, the constructor and set_batch_size both rejecting a
\* non-positive value, and a rejected set_batch_size leaves the previous
\* batch_size in place.
C20_BatchSizePositive ==
    /\ vec.constructed => vec.batch_size >= 1
    /\ (last.op = "set_batch_size" /\ last.b <= 0) => last.outcome = "ValueError"

\* C21 as claimed: the network-facing adapters never block forever: a wait
\* of the web scraper's fetch or of the PDF extractor's download carries an
\* explicit timeout and never outlasts it, and a call to a host that never
\* responds ends in failure.
C21_WaitsAreTimed ==
    \A c \in {net.web, net.pdf} :
        /\ c.pc \in Waiting => (c.timed /\ c.elapsed <= c.timeout)
        /\ (c.pc \in {"done", "failed"} /\ ~c.responds /\ c.outcome # "reader") =>
               c.pc = "failed"

\* the same of the web scraper alone, which holds
C21_WebFetchGivesUp ==
    /\ net.web.pc \in Waiting => (net.web.timed /\ net.web.elapsed <= net.web.timeout)
    /\ (net.web.pc \in {"done", "failed"} /\ ~net.web.responds) => net.web.pc = "failed"

\* a fetch of a host that never responds ended with the timeout error
C21_WebWitness ==
    /\ net.web.pc = "failed" /\ ~net.web.responds /\ net.web.outcome = "TimeoutError"

\* the calls that reach the network
Fetches(calls) == CallsOf(calls, "goto")

\* C22: WebScraper.scrape validates the URL before fetching: for a URL
\* whose scheme is not http or https, or that has no host (an empty network
\* location), no network fetch is performed and the result has success =
\* False and empty text; in every result success = False implies empty text.
C22_ValidatedBeforeFetch ==
    (last.op = "WebContextBuilder.build_context") =>
        /\ (urlparse(last.id).scheme \notin {"http", "https"}
               \/ urlparse(last.id).netloc = "") =>
              /\ Fetches(last.calls) = <<>>
              /\ ~last.success
              /\ last.text = <<>>
        /\ ~last.success => last.text = <<>>
        /\ CallsOf(last.calls, "scrape") # <<>>

\* C22 witness: a URL with the https scheme and no host was scraped
C22_Witness ==
    /\ last.op = "WebContextBuilder.build_context"
    /\ urlparse(last.id).scheme = "https" /\ urlparse(last.id).netloc = ""
    /\ ~last.success /\ Fetches(last.calls) = <<>>

\* C22 witness of the other side: a URL written HTTP://... is fetched
C22_WitnessFetched ==
    /\ last.op = "WebContextBuilder.build_context"
    /\ last.id = "HTTP://b.example/guide"
    /\ last.success /\ Fetches(last.calls) # <<>>

\* the paths of a sequence of paths
PathSet(paths) == { paths[i] : i \in DOMAIN paths }

\* the directories a path lies under, the root included
DirsAbove(path) == { SubSeq(path, 1, n) : n \in 0..(Len(path) - 1) }

\* the rules in force: none when gitignore is not respected or not found
Ignored(r) == IF r.respect_gitignore /\ r.loaded THEN r.gitignore ELSE {}

\* the files of the tree
AllFiles ==
    { <<"a.py">>, <<"B.PY">>, <<"notes.txt">>, <<"build", "gen.py">>, <<"lib", "c.md">>,
      <<"lib", "deep", "d.py">>, <<"lib", "deep", "deeper", "e.py">> }

\* C23: every path collect_files returns has an extension in the allow-list,
\* is not matched by the ignore rules, lies under no ignored directory and,
\* when max_depth = d >= 0, lies in a directory at depth at most d below the
\* root (the root being depth 0); with max_depth = -1 there is no depth
\* limit: every readable file that passes the other filters is returned.
C23_CollectedPathsFiltered ==
    (last.op = "collect_files") =>
        LET r == last.reader
        IN  /\ \A path \in PathSet(last.paths) :
                   /\ path \in AllFiles
                   /\ FileExt(path[Len(path)]) \in r.file_extensions
                   /\ path \notin Ignored(r)
                   /\ DirsAbove(path) \cap Ignored(r) = {}
                   /\ r.max_depth >= 0 => Len(path) - 1 <= r.max_depth
            /\ r.max_depth = -1 =>
                   \A path \in AllFiles :
                       (/\ FileExt(path[Len(path)]) \in r.file_extensions
                        /\ ({path} \cup DirsAbove(path)) \cap Ignored(r) = {}
                        /\ DirsAbove(path) \cap r.unreadable = {})
                           => path \in PathSet(last.paths)

\* C23 witness: with max_depth = 1 and lib/c.md ignored, files of the root
\* were returned, none of them deeper than lib, and not lib/c.md
C23_Witness ==
    /\ last.op = "collect_files" /\ last.reader.max_depth = 1
    /\ <<"lib", "c.md">> \in Ignored(last.reader)
    /\ "md" \in last.reader.file_extensions
    /\ <<"B.PY">> \in PathSet(last.paths)
    /\ <<"lib", "c.md">> \notin PathSet(last.paths)

\* C23 witness without a depth limit: the deepest file was returned
C23_WitnessUnlimited ==
    /\ last.op = "collect_files" /\ last.reader.max_depth = -1
    /\ <<"lib", "deep", "deeper", "e.py">> \in PathSet(last.paths)

\* C24 as claimed: for WebContext and for PdfContext, constructing the
\* context of an Uncached source whose adapter yields non-empty text and
\* whose persistence succeeds completes without error, stores the source's
\* chunks and leaves the source Cached, so that ask() on the new object
\* retrieves them; a construction fails only for want of text or by a
\* failure of the adapter or the store.
C24_FirstConstructionCaches ==
    /\ (IsWebInit(last) /\ ~last.cached /\ last.text # <<>> /\ last.failed = 0) =>
           /\ last.outcome = "ok"
           /\ DocsOf(store[last.path]) = DocsOf(last.before) \o split_documents(
                                             <<Document(last.text, NoMetadata)>>)
           /\ Cached(last.path)
           /\ last.path \in webObjs
           /\ \A q \in Questions : similarity_search(store[last.path], q, 1) # <<>>
    /\ (last.op = "PdfContext") =>
           last.outcome \in {"ok", "ValueError", "StoreError", "SourceError"}

\* the WebContext half alone, which holds
C24_WebFirstConstructionCaches ==
    (IsWebInit(last) /\ ~last.cached /\ last.text # <<>> /\ last.failed = 0) =>
        /\ last.outcome = "ok"
        /\ DocsOf(store[last.path]) = DocsOf(last.before) \o split_documents(
                                          <<Document(last.text, NoMetadata)>>)
        /\ Cached(last.path)
        /\ last.path \in webObjs
        /\ \A q \in Questions : similarity_search(store[last.path], q, 1) # <<>>

\* the positions in calls of the calls of fn
PositionsOf(calls, fn) == { i \in DOMAIN calls : calls[i].fn = fn }

\* the items of the k-th batch of size b of a list
BatchOf(list, b, k) ==
    SubSeq(list, (k - 1) * b + 1, IF k * b < Len(list) THEN k * b ELSE Len(list))

\* C25: in add_documents and add_text the store's persist() is invoked
\* exactly once per successful call and only after every batch add call, the
\* batch add calls being issued one after another in increasing batch order;
\* when a batch add fails no later batch is added and persist() is not
\* invoked by that call.
C25_PersistOnceAfterBatches ==
    (last.op \in {"add_documents", "add_text"}) =>
        LET adds == PositionsOf(last.calls, "add")
            persists == PositionsOf(last.calls, "persist")
            added == CallsOf(last.calls, "add")
        IN  /\ last.outcome = "ok" =>
                   /\ Cardinality(persists) = 1
                   /\ \A i \in adds : \A j \in persists : i < j
                   /\ last.calls[Len(last.calls)].fn = "persist"
            /\ last.outcome # "ok" => persists = {}
            /\ last.outcome = "StoreError" =>
                   /\ Len(added) = last.failed
                   /\ last.calls[Len(last.calls)].fn = "add"
            /\ (last.b >= 1 /\ Len(last.handed) > last.b) =>
                   \A k \in DOMAIN added : added[k].arg = BatchOf(last.handed, last.b, k)

\* C25 witness: add_documents added two batches, then persisted once
C25_Witness ==
    /\ last.op = "add_documents" /\ last.outcome = "ok"
    /\ Len(CallsOf(last.calls, "add")) = 2
    /\ Len(CallsOf(last.calls, "persist")) = 1

\* C25 witness of a failure: the second batch of add_text failed, no persist
C25_WitnessFailed ==
    /\ last.op = "add_text" /\ last.outcome = "StoreError" /\ last.failed = 2
    /\ CallsOf(last.calls, "persist") = <<>>

\* the operation recorded in l was a construction for, or an ask() on, the
\* source with input a = <<identifier, base directory>>
ActsOn(l, a) ==
    \/ l.op = "WebContext" /\ l.id = a[1] /\ l.base = a[2]
    \/ l.op = "WebContext.ask" /\ l.path = db_path(a[1], a[2])

\* C26: cache entries of different sources are independent: for two source
\* identifiers with different digests under the same base directory,
\* constructing a context for one (with any force_rescrape) or calling
\* ask() on it never adds, removes or changes a chunk in the other's store
\* nor its directory, and ask() returns chunks of its own store only.
C26_SourcesIndependent ==
    [][\A a \in WebInputs, b \in WebInputs :
          (a[2] = b[2] /\ db_hash(a[1]) # db_hash(b[1]) /\ ActsOn(last', a)) =>
              /\ store'[db_path(b[1], b[2])] = store[db_path(b[1], b[2])]
              /\ dirExists'[db_path(b[1], b[2])] = dirExists[db_path(b[1], b[2])]
              /\ dirFiles'[db_path(b[1], b[2])] = dirFiles[db_path(b[1], b[2])]
              /\ \A i \in DOMAIN last'.found :
                     \E j \in DOMAIN store[db_path(a[1], a[2])] :
                         store[db_path(a[1], a[2])][j].doc = last'.found[i]]_vars

\* C26 witness: a forced construction for one URL stored chunks while the
\* store of another URL held other chunks
C26_Witness ==
    /\ last.op = "WebContext" /\ last.force /\ last.outcome = "ok" /\ last.handed # <<>>
    /\ \E b \in WebInputs :
           /\ db_path(b[1], b[2]) # last.path
           /\ store[db_path(b[1], b[2])] # <<>>
           /\ DocsOf(store[db_path(b[1], b[2])]) # DocsOf(store[last.path])

\* C26 witness of ask(): chunks were returned while another store held chunks
C26_WitnessAsk ==
    /\ last.op = "WebContext.ask" /\ last.found # <<>>
    /\ \E b \in WebInputs :
           /\ db_path(b[1], b[2]) # last.path
           /\ store[db_path(b[1], b[2])] # <<>>

\* the calls that scrape, extract or write
WritingCalls == { "scrape", "fetch_html", "goto", "extract_text", "split", "add",
                  "add_documents", "add_texts", "persist" }

\* C27: ask() is read-only: for every question and k, on the fallback path
\* and on the LLM path, a call of WebContext.ask or PdfContext.ask leaves the
\* contents of every vector store and the cache state of every source
\* unchanged and makes no scrape, extraction, add or persist call.
C27_AskReadOnly ==
    [][(last'.op \in AskOps) =>
          /\ store' = store
          /\ dirExists' = dirExists
          /\ dirFiles' = dirFiles
          /\ webObjs' = webObjs /\ pdfObjs' = pdfObjs
          /\ \A i \in DOMAIN last'.calls : last'.calls[i].fn \notin WritingCalls
          /\ \A i \in DOMAIN last'.calls :
                 last'.calls[i].fn \in {"similarity_search", "similarity_search_with_score",
                                        "llm"}]_vars

\* C27 witness: PdfContext.ask on the LLM path, the store as it was
C27_Witness ==
    /\ last.op = "PdfContext.ask" /\ last.found # <<>>
    /\ Len(CallsOf(last.calls, "llm")) = 1
    /\ store[last.path] = last.before /\ Len(last.before) = MaxStore

\* C27 witness of the fallback path
C27_WitnessFallback ==
    /\ last.op = "WebContext.ask" /\ last.found = <<>> /\ last.result = FallbackMessage
    /\ store[last.path] = last.before /\ last.before # <<>>

\* C28: the two-step ingestion of WebContext (process_text on the source
\* text, then add_documents on the chunks, which chunks them again) stores
\* exactly the chunk sequence process_text produced: re-chunking a produced
\* chunk yields that single chunk unchanged, so the chunks stored and their
\* count are those add_text stores for the same text.
C28_RechunkingKeepsChunks ==
    (Ingesting(last) /\ last.text # <<>>) =>
        LET chunks == process_text(last.text, NoMetadata)
        IN  /\ \A i \in DOMAIN chunks : split_documents(<<chunks[i]>>) = <<chunks[i]>>
            /\ last.handed = chunks
            /\ last.outcome = "ok" =>
                   /\ DocsOf(store[last.path]) = DocsOf(last.before) \o chunks
                   /\ Len(last.ids) = Len(chunks)
                   /\ store[last.path] =
                          vec_add_text(last.before, last.text, NoMetadata,
                                       DefaultBatchSize, 0).store

\* C28 witness: a text longer than a chunk was stored as its two chunks
C28_Witness ==
    /\ Ingesting(last) /\ last.outcome = "ok"
    /\ Len(last.text) > ChunkSize
    /\ Len(process_text(last.text, NoMetadata)) >= 2
    /\ DocsOf(store[last.path]) = DocsOf(last.before) \o process_text(last.text, NoMetadata)

\* C29 as claimed: PDFContextBuilder.build_context(pdf_path), for a PDF
\* whose extracted text is not whitespace-only, passes exactly one Document
\* with that text and metadata file_path = pdf_path to the vectorizer's
\* add_documents and returns the ids it yields; for a PDF whose text is empty
\* or whitespace-only it returns without any vectorizer call.
C29_OneDocumentPerPdf ==
    (last.op = "PDFContextBuilder.build_context") =>
        LET vectorizer == SelectSeq(last.calls, LAMBDA c : c.fn \in {"split", "add", "persist"})
        IN  /\ Strip(last.text) # <<>> =>
                   /\ last.built = 1
                   /\ last.outcome \in {"ok", "StoreError"}
                   /\ last.outcome = "ok" =>
                          DocsOf(store[last.path]) =
                              DocsOf(last.before)
                              \o split_documents(<<Document(last.text,
                                                            { <<"file_path", last.id>> })>>)
            /\ Strip(last.text) = <<>> =>
                   /\ last.outcome = "ok"
                   /\ vectorizer = <<>>
                   /\ store[last.path] = last.before

\* C30: the Database behaves as a map from row id to (directory, content):
\* after any sequence of create_file, update_file and delete_file calls,
\* get_file_by_id(id) returns the values last written for an id that was
\* created and not deleted and nothing otherwise; update_file and
\* delete_file on an id that is not present return False and change no row;
\* create_file never returns an id it returned before, even after deletions.
C30_DatabaseIsAMap ==
    [][/\ \A id \in FileIds :
              get_file_by_id(database', id) =
                  IF id \in DOMAIN seen'.written
                  THEN <<id, seen'.written[id].directory, seen'.written[id].content>>
                  ELSE <<>>
       /\ (last'.op = "get_file_by_id") =>
              last'.returned = get_file_by_id(database, last'.file_id)
       /\ (last'.op \in {"update_file", "delete_file"}
               /\ last'.file_id \notin DOMAIN seen.written) =>
              /\ last'.returned = <<FALSE>>
              /\ database'.files = database.files
       /\ (last'.op = "create_file" /\ last'.outcome = "ok") =>
              /\ last'.returned[1] \notin seen.issued
              /\ last'.returned[1] \notin DOMAIN database.files]_vars

\* C30 witness: after the row of the largest id was deleted, create_file
\* returned a new id, larger than the deleted one
C30_Witness ==
    /\ last.op = "create_file" /\ last.outcome = "ok"
    /\ \E id \in seen.issued : id \notin DOMAIN database.files /\ id < last.returned[1]
    /\ \A id \in DOMAIN database.files : id <= last.returned[1]
    /\ Cardinality(DOMAIN database.files) = 1

\* C30 witness of a read: get_file_by_id returned the row of a live id
C30_WitnessRead ==
    /\ last.op = "get_file_by_id" /\ last.returned # <<>>
    /\ last.returned[2] = "docs" /\ last.returned[3] = "# notes"

=============================================================================
